---- MODULE Spec2Model ----
(***************************************************************************)
(* Tournament lifecycle and balance ledger of the quiz backend.            *)
(*                                                                         *)
(* The database holds the user documents, one tournament document and the  *)
(* transaction collection.  A request handler is a sequence of steps, one  *)
(* per awaited database call; the synchronous code between two awaits is   *)
(* part of the step that ends with the next await.  Money is counted in    *)
(* whole units.                                                            *)
(***************************************************************************)
EXTENDS Integers, Sequences, FiniteSets, TLC

VARIABLES users, tournament, transactions, now, reqs, pre, res, budget,
          security

vars == <<users, tournament, transactions, now, reqs, pre, res, budget, security>>

----------------------------------------------------------------------------
(* Bounds of the model *)

MaxTime == 3
MaxTxns == 3
MaxMoney == 20
MaxRequests == 3
MaxAdvances == 3
MaxRecords == 2

Users == {"u1", "u2", "u3"}
Times == 0..MaxTime
NoDate == 0 - 1
NoUser == "nobody"

BalanceTypes == {"playable", "bonus"}

----------------------------------------------------------------------------
(* User documents: the financial fields and the ledger methods *)

NewUser == [playableBalance |-> 0, bonusBalance |-> 0, balance |-> 0,
            totalEarned |-> 0, hasDeposited |-> FALSE]

addBalance_NoAggregate(doc, amount, type) ==
    LET d1 == IF type = "playable"
                 THEN [doc EXCEPT !.playableBalance = @ + amount]
                 ELSE IF type = "bonus"
                         THEN [doc EXCEPT !.bonusBalance = @ + amount]
                         ELSE doc
    IN  [d1 EXCEPT !.totalEarned = @ + amount]

addBalance(doc, amount, type) ==
    LET d1 == IF type = "playable"
                 THEN [doc EXCEPT !.playableBalance = @ + amount]
                 ELSE IF type = "bonus"
                         THEN [doc EXCEPT !.bonusBalance = @ + amount]
                         ELSE doc
        d2 == [d1 EXCEPT !.balance = d1.playableBalance + d1.bonusBalance]
    IN  [d2 EXCEPT !.totalEarned = @ + amount]

(* deductBalance returns the document and the boolean the method returns *)
deductBalance_NoGuard(doc, amount, type) ==
    IF type = "playable"
       THEN LET d1 == [doc EXCEPT !.playableBalance = @ - amount]
            IN  [doc |-> [d1 EXCEPT !.balance = d1.playableBalance + d1.bonusBalance],
                 ok |-> TRUE]
       ELSE IF type = "bonus"
               THEN LET d1 == [doc EXCEPT !.bonusBalance = @ - amount]
                    IN  [doc |-> [d1 EXCEPT !.balance = d1.playableBalance + d1.bonusBalance],
                         ok |-> TRUE]
               ELSE [doc |-> doc, ok |-> FALSE]

deductBalance(doc, amount, type) ==
    IF type = "playable" /\ doc.playableBalance >= amount
       THEN LET d1 == [doc EXCEPT !.playableBalance = @ - amount]
            IN  [doc |-> [d1 EXCEPT !.balance = d1.playableBalance + d1.bonusBalance],
                 ok |-> TRUE]
       ELSE IF type = "bonus" /\ doc.bonusBalance >= amount
               THEN LET d1 == [doc EXCEPT !.bonusBalance = @ - amount]
                    IN  [doc |-> [d1 EXCEPT !.balance = d1.playableBalance + d1.bonusBalance],
                         ok |-> TRUE]
               ELSE [doc |-> doc, ok |-> FALSE]

Bucket(doc, type) ==
    IF type = "playable" THEN doc.playableBalance ELSE doc.bonusBalance

----------------------------------------------------------------------------
(* Tournament documents.  NoTournament stands for findById returning null. *)

NoTournament == [status |-> "none"]

TournamentStatuses == {"upcoming", "active", "completed", "cancelled"}

NewParticipant(userId, at) ==
    [user |-> userId, joinedAt |-> at, score |-> 0, timeSpent |-> 0,
     rank |-> 0, prize |-> 0]

HasParticipant(t, userId) ==
    \E i \in 1..Len(t.participants) : t.participants[i].user = userId

(* findIndex: the first index holding the user, 0 when there is none *)
ParticipantIndex(t, userId) ==
    IF HasParticipant(t, userId)
       THEN CHOOSE i \in 1..Len(t.participants) :
                /\ t.participants[i].user = userId
                /\ \A j \in 1..(i - 1) : t.participants[j].user # userId
       ELSE 0

RemoveAt(seq, i) ==
    [j \in 1..(Len(seq) - 1) |-> IF j < i THEN seq[j] ELSE seq[j + 1]]

isRegistrationOpen(t, at) ==
    /\ t.status = "upcoming"
    /\ at >= t.registrationStart
    /\ at <= t.registrationEnd
    /\ Len(t.participants) < t.maxParticipants

(* canJoin returns its reason, "OK" when the user can join *)
canJoin_NoWindowCheck(t, userId, at) ==
    IF HasParticipant(t, userId) THEN "Already a participant"
    ELSE IF Len(t.participants) >= t.maxParticipants THEN "Tournament is full"
    ELSE IF t.isPrivate THEN "Private tournament"
    ELSE "OK"

canJoin(t, userId, at) ==
    IF HasParticipant(t, userId) THEN "Already a participant"
    ELSE IF Len(t.participants) >= t.maxParticipants THEN "Tournament is full"
    ELSE IF ~isRegistrationOpen(t, at) THEN "Registration is closed"
    ELSE IF t.isPrivate THEN "Private tournament"
    ELSE "OK"

(* the methods below return [doc, err]; err is the message of the thrown   *)
(* Error, "OK" when nothing is thrown                                      *)
addParticipant(t, userId, at) ==
    IF HasParticipant(t, userId)
       THEN [doc |-> t, err |-> "User is already a participant"]
    ELSE IF Len(t.participants) >= t.maxParticipants
       THEN [doc |-> t, err |-> "Tournament is full"]
    ELSE IF ~isRegistrationOpen(t, at)
       THEN [doc |-> t, err |-> "Registration is closed"]
    ELSE [doc |-> [t EXCEPT !.participants =
                               Append(@, NewParticipant(userId, at))],
          err |-> "OK"]

removeParticipant(t, userId) ==
    IF ~HasParticipant(t, userId)
       THEN [doc |-> t, err |-> "User is not a participant"]
    ELSE IF t.status = "active" \/ t.status = "completed"
       THEN [doc |-> t,
             err |-> "Cannot remove participants after tournament starts"]
    ELSE [doc |-> [t EXCEPT !.participants =
                               RemoveAt(@, ParticipantIndex(t, userId))],
          err |-> "OK"]

startTournament_NoRosterCheck(t, at) ==
    IF t.status # "upcoming"
       THEN [doc |-> t, err |-> "Tournament cannot be started"]
    ELSE [doc |-> [t EXCEPT !.status = "active", !.phase = "quiz",
                            !.actualStartTime = at],
          err |-> "OK"]

startTournament(t, at) ==
    IF t.status # "upcoming"
       THEN [doc |-> t, err |-> "Tournament cannot be started"]
    ELSE IF Len(t.participants) < t.minParticipants
       THEN [doc |-> t, err |-> "Not enough participants to start tournament"]
    ELSE [doc |-> [t EXCEPT !.status = "active", !.phase = "quiz",
                            !.actualStartTime = at],
          err |-> "OK"]

(* the comparator of calculateRankings: a negative value puts a first *)
CompareParticipants_ScoreOnly(a, b) == b.score - a.score

CompareParticipants(a, b) ==
    IF b.score # a.score THEN b.score - a.score ELSE a.timeSpent - b.timeSpent

RECURSIVE InsertSorted(_, _)
InsertSorted(sorted, p) ==
    IF sorted = <<>> THEN <<p>>
    ELSE IF CompareParticipants(p, Head(sorted)) < 0
            THEN <<p>> \o sorted
            ELSE <<Head(sorted)>> \o InsertSorted(Tail(sorted), p)

(* Array.prototype.sort is stable: equal elements keep their order *)
RECURSIVE SortParticipants(_)
SortParticipants(seq) ==
    IF seq = <<>> THEN <<>>
    ELSE InsertSorted(SortParticipants(SubSeq(seq, 1, Len(seq) - 1)),
                      seq[Len(seq)])

TopEntry(p) == [user |-> p.user, rank |-> p.rank, score |-> p.score,
                prize |-> p.prize]

calculateRankings(t) ==
    LET sorted == SortParticipants(t.participants)
        ranked == [i \in 1..Len(sorted) |-> [sorted[i] EXCEPT !.rank = i]]
    IN  [t EXCEPT !.participants = ranked,
                  !.winner = IF Len(ranked) > 0 THEN ranked[1].user ELSE @,
                  !.topParticipants =
                      [i \in 1..(IF Len(ranked) < 10 THEN Len(ranked) ELSE 10)
                          |-> TopEntry(ranked[i])]]

HasPrizeInfo(t, rank) ==
    \E k \in 1..Len(t.prizeDistribution) : t.prizeDistribution[k].rank = rank

(* find: the first entry of prizeDistribution with the rank *)
PrizeInfo_First(t, rank) == t.prizeDistribution[1]

PrizeInfo(t, rank) ==
    t.prizeDistribution[CHOOSE k \in 1..Len(t.prizeDistribution) :
        /\ t.prizeDistribution[k].rank = rank
        /\ \A j \in 1..(k - 1) : t.prizeDistribution[j].rank # rank]

RECURSIVE SumPrizes(_)
SumPrizes(seq) ==
    IF seq = <<>> THEN 0 ELSE Head(seq).prize + SumPrizes(Tail(seq))

distributePrizes(t) ==
    IF Len(t.prizeDistribution) = 0 THEN t
    ELSE LET paid == [i \in 1..Len(t.participants) |->
                        IF HasPrizeInfo(t, t.participants[i].rank)
                           THEN [t.participants[i] EXCEPT
                                    !.prize = PrizeInfo(t, t.participants[i].rank).prize]
                           ELSE t.participants[i]]
         IN  [t EXCEPT !.participants = paid, !.totalPrizes = SumPrizes(paid)]

completeTournament_NoStatusCheck(t, at) ==
    [doc |-> distributePrizes(calculateRankings(
                 [t EXCEPT !.status = "completed", !.phase = "results",
                           !.actualEndTime = at])),
     err |-> "OK"]

completeTournament(t, at) ==
    IF t.status # "active"
       THEN [doc |-> t, err |-> "Tournament is not active"]
    ELSE [doc |-> distributePrizes(calculateRankings(
                      [t EXCEPT !.status = "completed", !.phase = "results",
                                !.actualEndTime = at])),
          err |-> "OK"]

updateParticipantScore(t, userId, score, timeSpent) ==
    IF ~HasParticipant(t, userId)
       THEN [doc |-> t, err |-> "User is not a participant"]
       ELSE [doc |-> [t EXCEPT
                        !.participants[ParticipantIndex(t, userId)].score = score,
                        !.participants[ParticipantIndex(t, userId)].timeSpent = timeSpent],
             err |-> "OK"]

(* pre('save'): the statistics recomputed from the document being saved *)
preSave(t) == [t EXCEPT !.totalRegistrations = Len(t.participants)]

----------------------------------------------------------------------------
(* Transaction documents *)

TransactionTypes == {"deposit", "withdrawal", "quiz", "tournament", "referral",
                     "bonus", "daily_bonus", "task", "refund"}

(* actualBefore and actualAfter are not fields of the schema: they record  *)
(* the playable balance the database held around the balance write the     *)
(* record belongs to (NoDate while no balance write belongs to it).        *)
NewTransaction(userId, type, category, amount, before, after, status, tournamentId, rank, aBefore, aAfter) ==
    [userId |-> userId, type |-> type, category |-> category,
     amount |-> amount, balanceBefore |-> before, balanceAfter |-> after,
     status |-> status, tournamentId |-> tournamentId, rank |-> rank,
     actualBefore |-> aBefore, actualAfter |-> aAfter]

NoTransaction == [status |-> "none"]

(* schema validation of a transaction document at save *)
ValidTransaction(x) ==
    /\ x.type \in TransactionTypes
    /\ x.amount >= 0
    /\ x.balanceBefore >= 0
    /\ x.balanceAfter >= 0

----------------------------------------------------------------------------
(* Requests.  A slot holds one request in flight: the handler (op), the    *)
(* awaited call it is waiting for (pc), the caller, the body and the       *)
(* documents the handler holds in memory.                                  *)

Slots == {1, 2}

AdminId == "admin"
TournamentId == "t1"
NoTournamentId == "none"
Absent == 0 - 1

NoSnapshot == [users |-> <<>>, tournament |-> NoTournament,
               transactions |-> <<>>, now |-> 0]

Snapshot == [users |-> users, tournament |-> tournament,
             transactions |-> transactions, now |-> now]

NoBody == [entryFee |-> Absent]

(* wT, wU and wX tell which writes of the request are committed: the       *)
(* tournament, the user and the transaction record.  aBefore and aAfter    *)
(* are the playable balance the database held around the user write.       *)
Idle == [op |-> "idle", pc |-> "idle", user |-> NoUser, body |-> NoBody,
         t |-> NoTournament, t0 |-> NoTournament, u |-> NewUser,
         u0 |-> NewUser, i |-> 0, x |-> 0, xdoc |-> NoTransaction,
         amount |-> 0, type |-> "playable",
         pre |-> NoSnapshot, wT |-> FALSE, wU |-> FALSE, wX |-> FALSE,
         aBefore |-> NoDate, aAfter |-> NoDate]

NoResult == [op |-> "none", user |-> NoUser, code |-> "NONE",
             reason |-> "", amount |-> 0, type |-> "playable",
             wT |-> FALSE, wU |-> FALSE, wX |-> FALSE, body |-> NoBody]

AllIdle == \A s \in Slots : reqs[s].op = "idle"

Unbounded == 0 - 1

(* A request is admitted into a free slot.  In a sequential run (seq) the  *)
(* request starts when no other is in flight and remembers the database it *)
(* started from; otherwise requests overlap.  A run that counts its        *)
(* requests admits MaxRequests of them.                                    *)
Admit(s, seq) ==
    /\ reqs[s].op = "idle"
    /\ seq => s = 1 /\ AllIdle
    /\ IF budget = Unbounded THEN budget' = budget
                             ELSE budget < MaxRequests /\ budget' = budget + 1

NewRequest(op, userId, seq) ==
    [Idle EXCEPT !.op = op, !.user = userId,
                 !.pre = IF seq THEN Snapshot ELSE NoSnapshot]

(* the first step of a request, and a later one *)
Enter(s, r) ==
    /\ reqs' = [reqs EXCEPT ![s] = r]
    /\ pre' = NoSnapshot
    /\ res' = NoResult
    /\ UNCHANGED security

Step(s, r) ==
    /\ reqs' = [reqs EXCEPT ![s] = r]
    /\ UNCHANGED <<pre, res, security>>

(* the response is sent: the slot is free again and the outcome recorded *)
Respond(s, r, code, reason) ==
    /\ reqs' = [reqs EXCEPT ![s] = Idle]
    /\ pre' = r.pre
    /\ res' = [op |-> r.op, user |-> r.user, code |-> code,
               reason |-> reason, amount |-> r.amount, type |-> r.type,
               wT |-> r.wT, wU |-> r.wU, wX |-> r.wX,
               body |-> IF r.op = "create" THEN r.body ELSE NoBody]
    /\ UNCHANGED security

(* user.save(): $set of the paths whose value the handler changed *)
SaveUser(db, doc, read) ==
    [f \in DOMAIN db |-> IF doc[f] # read[f] THEN doc[f] ELSE db[f]]

(* schema validation of a user document at save: min 0 on the balances *)
ValidUser(doc) ==
    /\ doc.balance >= 0
    /\ doc.playableBalance >= 0
    /\ doc.bonusBalance >= 0

----------------------------------------------------------------------------
(* POST /api/tournaments: create a tournament *)

EntryFees == {0, 5}
PrizePools == {0, 10}
RosterSizes == {2}

(* a prizeDistribution a body may carry; the empty one stands for a body   *)
(* that carries none                                                       *)
PrizeOverrides == {<<>>, <<[rank |-> 1, prize |-> 10, percentage |-> 100]>>}

CreateBodies ==
    [entryFee : EntryFees, prizePool : PrizePools,
     maxParticipants : RosterSizes, minParticipants : {Absent},
     registrationStart : {1}, registrationEnd : {1, 2},
     startTime : {2, 3}, endTime : {3, 4}, isPrivate : BOOLEAN,
     prizeDistribution : PrizeOverrides]

(* the date checks of the handler, in their order; "OK" when all pass *)
ValidateDates_NoFutureCheck(body, at) ==
    IF body.registrationStart >= body.registrationEnd
       THEN "Registration start must be before registration end"
    ELSE IF body.registrationEnd >= body.startTime
       THEN "Registration end must be before tournament start"
    ELSE IF body.startTime >= body.endTime
       THEN "Start time must be before end time"
    ELSE "OK"

ValidateDates(body, at) ==
    IF body.registrationStart >= body.registrationEnd
       THEN "Registration start must be before registration end"
    ELSE IF body.registrationEnd >= body.startTime
       THEN "Registration end must be before tournament start"
    ELSE IF body.startTime >= body.endTime
       THEN "Start time must be before end time"
    ELSE IF body.startTime <= at
       THEN "Start time must be in the future"
    ELSE "OK"

(* new Tournament({...body, createdBy, appFee, prizeDistribution}) with    *)
(* the schema defaults                                                     *)
NewTournament(body, userId) ==
    [status |-> "upcoming", phase |-> "registration",
     entryFee |-> body.entryFee, prizePool |-> body.prizePool,
     appFee |-> (body.entryFee * 2) \div 10,
     maxParticipants |-> body.maxParticipants,
     minParticipants |-> IF body.minParticipants = Absent THEN 2
                         ELSE body.minParticipants,
     participants |-> <<>>,
     registrationStart |-> body.registrationStart,
     registrationEnd |-> body.registrationEnd,
     startTime |-> body.startTime, endTime |-> body.endTime,
     actualStartTime |-> NoDate, actualEndTime |-> NoDate,
     prizeDistribution |->
        <<[rank |-> 1, prize |-> (body.prizePool * 5) \div 10, percentage |-> 50],
          [rank |-> 2, prize |-> (body.prizePool * 3) \div 10, percentage |-> 30],
          [rank |-> 3, prize |-> (body.prizePool * 2) \div 10, percentage |-> 20]>>,
     winner |-> NoUser, topParticipants |-> <<>>,
     isPrivate |-> body.isPrivate, createdBy |-> userId,
     totalRegistrations |-> 0, totalPrizes |-> 0, v |-> 0]

CreateReadU(s, userId, body, seq) ==
    /\ Admit(s, seq)
    /\ tournament = NoTournament
    /\ \A o \in Slots : reqs[o].op # "create"
    /\ Len(transactions) < MaxTxns
    /\ LET r == [NewRequest("create", userId, seq) EXCEPT !.body = body]
           u == users[userId]
       IN  IF ValidateDates(body, now) # "OK"
              THEN Respond(s, r, "INVALID_DATES", ValidateDates(body, now))
           ELSE IF u.playableBalance < body.entryFee
              THEN Respond(s, r, "INSUFFICIENT_BALANCE",
                           "Insufficient balance to create tournament")
           ELSE Enter(s, [r EXCEPT !.u = u, !.u0 = u,
                                  !.t = preSave(NewTournament(body, userId)),
                                  !.pc = "create_saveT"])
    /\ UNCHANGED <<users, tournament, transactions, now>>

CreateSaveT(s, fail) ==
    LET r == reqs[s]
    IN  /\ r.pc = "create_saveT"
        /\ IF fail
              THEN /\ Respond(s, r, "INTERNAL_ERROR", "Failed to create tournament")
                   /\ UNCHANGED tournament
              ELSE /\ tournament' = r.t
                   /\ Step(s, [r EXCEPT
                         !.u = deductBalance(r.u, r.body.entryFee, "playable").doc,
                         !.wT = TRUE, !.pc = "create_saveU"])
        /\ UNCHANGED <<users, transactions, now, budget>>

CreateSaveU(s, fail) ==
    LET r == reqs[s]
        saved == SaveUser(users[r.user], r.u, r.u0)
    IN  /\ r.pc = "create_saveU"
        /\ IF fail \/ ~ValidUser(r.u)
              THEN /\ Respond(s, r, "INTERNAL_ERROR", "Failed to create tournament")
                   /\ UNCHANGED users
              ELSE /\ users' = [users EXCEPT ![r.user] = saved]
                   /\ Step(s, [r EXCEPT
                         !.wU = TRUE, !.pc = "create_saveX",
                         !.aBefore = users[r.user].playableBalance,
                         !.aAfter = saved.playableBalance])
        /\ UNCHANGED <<tournament, transactions, now, budget>>

CreateSaveX(s, fail) ==
    LET r == reqs[s]
        x == NewTransaction(r.user, "tournament", "expense", r.body.entryFee,
                            r.u.playableBalance + r.body.entryFee,
                            r.u.playableBalance, "completed", TournamentId, 0,
                            r.aBefore, r.aAfter)
    IN  /\ r.pc = "create_saveX"
        /\ IF fail \/ ~ValidTransaction(x)
              THEN /\ Respond(s, r, "INTERNAL_ERROR", "Failed to create tournament")
                   /\ UNCHANGED transactions
              ELSE /\ transactions' = Append(transactions, x)
                   /\ Respond(s, [r EXCEPT !.wX = TRUE], "OK",
                              "Tournament created successfully")
        /\ UNCHANGED <<users, tournament, now, budget>>

----------------------------------------------------------------------------
(* PUT /api/tournaments/:id: update a tournament.  The request body is     *)
(* handed to findByIdAndUpdate as it came: a body may carry entryFee or    *)
(* status beside the validated title, description and settings.            *)

UpdateBodies ==
    {[entryFee |-> Absent, status |-> "keep"]}
    \cup [entryFee : EntryFees, status : {"keep"}]
    \cup [entryFee : {Absent}, status : TournamentStatuses \ {"upcoming"}]

(* findByIdAndUpdate(id, body, {runValidators: true}) *)
ApplyUpdate(t, body) ==
    IF t = NoTournament THEN t
    ELSE [t EXCEPT !.entryFee = IF body.entryFee = Absent THEN @
                                ELSE body.entryFee,
                   !.status = IF body.status = "keep" THEN @ ELSE body.status]

UpdateReadT(s, userId, body, seq) ==
    /\ Admit(s, seq)
    /\ LET t == tournament
           r == [NewRequest("update", userId, seq) EXCEPT
                    !.body = body, !.t = t, !.t0 = t]
       IN  IF t = NoTournament
              THEN Respond(s, r, "TOURNAMENT_NOT_FOUND", "Tournament not found")
           ELSE IF t.createdBy # userId /\ userId # AdminId
              THEN Respond(s, r, "ACCESS_DENIED",
                           "Only tournament creator can update")
           ELSE IF t.status # "upcoming"
              THEN Respond(s, r, "TOURNAMENT_STARTED",
                           "Cannot update tournament after it has started")
           ELSE Enter(s, [r EXCEPT !.pc = "update_write"])
    /\ UNCHANGED <<users, tournament, transactions, now>>

UpdateWrite(s, fail) ==
    LET r == reqs[s]
    IN  /\ r.pc = "update_write"
        /\ IF fail
              THEN /\ Respond(s, r, "INTERNAL_ERROR", "Failed to update tournament")
                   /\ UNCHANGED tournament
              ELSE /\ tournament' = ApplyUpdate(tournament, r.body)
                   /\ Respond(s, [r EXCEPT !.wT = TRUE], "OK",
                              "Tournament updated successfully")
        /\ UNCHANGED <<users, transactions, now, budget>>

----------------------------------------------------------------------------
(* POST /api/tournaments/:id/join *)

JoinReadT(s, userId, seq) ==
    /\ Admit(s, seq)
    /\ LET t == tournament
           r == [NewRequest("join", userId, seq) EXCEPT !.t = t, !.t0 = t]
       IN  IF t = NoTournament
              THEN Respond(s, r, "TOURNAMENT_NOT_FOUND", "Tournament not found")
           ELSE IF canJoin(t, userId, now) # "OK"
              THEN Respond(s, r, "CANNOT_JOIN", canJoin(t, userId, now))
           ELSE /\ Len(transactions) < MaxTxns
                /\ Enter(s, [r EXCEPT !.pc = "join_readU"])
    /\ UNCHANGED <<users, tournament, transactions, now>>

JoinReadU(s) ==
    LET r == reqs[s]
        u == users[r.user]
        a == addParticipant(r.t, r.user, now)
    IN  /\ r.pc = "join_readU"
        /\ IF u.playableBalance < r.t.entryFee
              THEN Respond(s, r, "INSUFFICIENT_BALANCE",
                           "Insufficient balance to join tournament")
           ELSE IF a.err # "OK"
              THEN Respond(s, r, "INTERNAL_ERROR", a.err)
           ELSE Step(s, [r EXCEPT !.u = u, !.u0 = u, !.t = preSave(a.doc),
                                  !.pc = "join_saveT"])
        /\ UNCHANGED <<users, tournament, transactions, now, budget>>

(* tournament.save() after a push: $push of the new entry, $inc of the     *)
(* version and $set of the recomputed statistics                           *)
JoinSaveT(s, fail) ==
    LET r == reqs[s]
    IN  /\ r.pc = "join_saveT"
        /\ IF fail \/ tournament = NoTournament
              THEN /\ Respond(s, r, "INTERNAL_ERROR", "Failed to join tournament")
                   /\ UNCHANGED tournament
              ELSE /\ tournament' =
                         [tournament EXCEPT
                            !.participants =
                                Append(@, r.t.participants[Len(r.t.participants)]),
                            !.totalRegistrations = r.t.totalRegistrations,
                            !.v = @ + 1]
                   /\ Step(s, [r EXCEPT
                         !.u = deductBalance(r.u, r.t.entryFee, "playable").doc,
                         !.wT = TRUE, !.pc = "join_saveU"])
        /\ UNCHANGED <<users, transactions, now, budget>>

JoinSaveU(s, fail) ==
    LET r == reqs[s]
        saved == SaveUser(users[r.user], r.u, r.u0)
    IN  /\ r.pc = "join_saveU"
        /\ IF fail \/ ~ValidUser(r.u)
              THEN /\ Respond(s, r, "INTERNAL_ERROR", "Failed to join tournament")
                   /\ UNCHANGED users
              ELSE /\ users' = [users EXCEPT ![r.user] = saved]
                   /\ Step(s, [r EXCEPT
                         !.wU = TRUE, !.pc = "join_saveX",
                         !.aBefore = users[r.user].playableBalance,
                         !.aAfter = saved.playableBalance])
        /\ UNCHANGED <<tournament, transactions, now, budget>>

JoinSaveX(s, fail) ==
    LET r == reqs[s]
        x == NewTransaction(r.user, "tournament", "expense", r.t.entryFee,
                            r.u.playableBalance + r.t.entryFee,
                            r.u.playableBalance, "completed", TournamentId, 0,
                            r.aBefore, r.aAfter)
    IN  /\ r.pc = "join_saveX"
        /\ IF fail \/ ~ValidTransaction(x)
              THEN /\ Respond(s, r, "INTERNAL_ERROR", "Failed to join tournament")
                   /\ UNCHANGED transactions
              ELSE /\ transactions' = Append(transactions, x)
                   /\ Respond(s, [r EXCEPT !.wX = TRUE], "OK",
                              "Successfully joined tournament")
        /\ UNCHANGED <<users, tournament, now, budget>>

----------------------------------------------------------------------------
(* POST /api/tournaments/:id/leave *)

LeaveReadT(s, userId, seq) ==
    /\ Admit(s, seq)
    /\ LET t == tournament
           r == [NewRequest("leave", userId, seq) EXCEPT !.t = t, !.t0 = t]
           a == removeParticipant(t, userId)
       IN  IF t = NoTournament
              THEN Respond(s, r, "TOURNAMENT_NOT_FOUND", "Tournament not found")
           ELSE IF ~HasParticipant(t, userId)
              THEN Respond(s, r, "NOT_PARTICIPANT",
                           "You are not a participant in this tournament")
           ELSE IF t.status = "active" \/ t.status = "completed"
              THEN Respond(s, r, "TOURNAMENT_STARTED",
                           "Cannot leave tournament after it has started")
           ELSE IF a.err # "OK"
              THEN Respond(s, r, "INTERNAL_ERROR", a.err)
           ELSE /\ Len(transactions) < MaxTxns
                /\ Enter(s, [r EXCEPT !.t = preSave(a.doc),
                                      !.pc = "leave_saveT"])
    /\ UNCHANGED <<users, tournament, transactions, now>>

(* tournament.save() after a splice: $set of the whole array, guarded by   *)
(* the version the document was read at (VersionError otherwise)           *)
LeaveSaveT(s, fail) ==
    LET r == reqs[s]
    IN  /\ r.pc = "leave_saveT"
        /\ IF fail \/ tournament = NoTournament
              THEN /\ Respond(s, r, "INTERNAL_ERROR", "Failed to leave tournament")
                   /\ UNCHANGED tournament
           ELSE IF tournament.v # r.t.v
              THEN /\ Respond(s, r, "INTERNAL_ERROR", "VersionError")
                   /\ UNCHANGED tournament
              ELSE /\ tournament' =
                         [tournament EXCEPT
                            !.participants = r.t.participants,
                            !.totalRegistrations = r.t.totalRegistrations,
                            !.v = @ + 1]
                   /\ Step(s, [r EXCEPT !.wT = TRUE, !.pc = "leave_readU"])
        /\ UNCHANGED <<users, transactions, now, budget>>

LeaveReadU(s) ==
    LET r == reqs[s]
        u == users[r.user]
    IN  /\ r.pc = "leave_readU"
        /\ Step(s, [r EXCEPT !.u = addBalance(u, r.t.entryFee, "playable"),
                             !.u0 = u, !.pc = "leave_saveU"])
        /\ UNCHANGED <<users, tournament, transactions, now, budget>>

LeaveSaveU(s, fail) ==
    LET r == reqs[s]
        saved == SaveUser(users[r.user], r.u, r.u0)
    IN  /\ r.pc = "leave_saveU"
        /\ IF fail \/ ~ValidUser(r.u)
              THEN /\ Respond(s, r, "INTERNAL_ERROR", "Failed to leave tournament")
                   /\ UNCHANGED users
              ELSE /\ users' = [users EXCEPT ![r.user] = saved]
                   /\ Step(s, [r EXCEPT
                         !.wU = TRUE, !.pc = "leave_saveX",
                         !.aBefore = users[r.user].playableBalance,
                         !.aAfter = saved.playableBalance])
        /\ UNCHANGED <<tournament, transactions, now, budget>>

LeaveSaveX(s, fail) ==
    LET r == reqs[s]
        x == NewTransaction(r.user, "refund", "income", r.t.entryFee,
                            r.u.playableBalance - r.t.entryFee,
                            r.u.playableBalance, "completed", TournamentId, 0,
                            r.aBefore, r.aAfter)
    IN  /\ r.pc = "leave_saveX"
        /\ IF fail \/ ~ValidTransaction(x)
              THEN /\ Respond(s, r, "INTERNAL_ERROR", "Failed to leave tournament")
                   /\ UNCHANGED transactions
              ELSE /\ transactions' = Append(transactions, x)
                   /\ Respond(s, [r EXCEPT !.wX = TRUE], "OK",
                              "Successfully left tournament")
        /\ UNCHANGED <<users, tournament, now, budget>>

----------------------------------------------------------------------------
(* POST /api/tournaments/:id/start (admin) *)

StartReadT(s, seq) ==
    /\ Admit(s, seq)
    /\ LET t == tournament
           r == [NewRequest("start", AdminId, seq) EXCEPT !.t = t, !.t0 = t]
           a == startTournament(t, now)
       IN  IF t = NoTournament
              THEN Respond(s, r, "TOURNAMENT_NOT_FOUND", "Tournament not found")
           ELSE IF a.err # "OK"
              THEN Respond(s, r, "INTERNAL_ERROR", a.err)
           ELSE Enter(s, [r EXCEPT !.t = preSave(a.doc), !.pc = "start_saveT"])
    /\ UNCHANGED <<users, tournament, transactions, now>>

(* tournament.save(): $set of the paths startTournament and the pre-save   *)
(* hook changed                                                            *)
StartSaveT(s, fail) ==
    LET r == reqs[s]
    IN  /\ r.pc = "start_saveT"
        /\ IF fail \/ tournament = NoTournament
              THEN /\ Respond(s, r, "INTERNAL_ERROR", "Failed to start tournament")
                   /\ UNCHANGED tournament
              ELSE /\ tournament' =
                         [tournament EXCEPT
                            !.status = r.t.status, !.phase = r.t.phase,
                            !.actualStartTime = r.t.actualStartTime,
                            !.totalRegistrations =
                                IF r.t.totalRegistrations # r.t0.totalRegistrations
                                   THEN r.t.totalRegistrations ELSE @]
                   /\ Respond(s, [r EXCEPT !.wT = TRUE], "OK",
                              "Tournament started successfully")
        /\ UNCHANGED <<users, transactions, now, budget>>

----------------------------------------------------------------------------
(* POST /api/tournaments/:id/complete (admin) *)

(* the next participant after position i whose prize is paid, 0 if none *)
NextPaid(t, i) ==
    IF \E j \in (i + 1)..Len(t.participants) : t.participants[j].prize > 0
       THEN CHOOSE j \in (i + 1)..Len(t.participants) :
                /\ t.participants[j].prize > 0
                /\ \A k \in (i + 1)..(j - 1) : t.participants[k].prize <= 0
       ELSE 0

CompleteReadT(s, seq) ==
    /\ Admit(s, seq)
    /\ LET t == tournament
           r == [NewRequest("complete", AdminId, seq) EXCEPT !.t = t, !.t0 = t]
           a == completeTournament(t, now)
       IN  IF t = NoTournament
              THEN Respond(s, r, "TOURNAMENT_NOT_FOUND", "Tournament not found")
           ELSE IF a.err # "OK"
              THEN Respond(s, r, "INTERNAL_ERROR", a.err)
           ELSE Enter(s, [r EXCEPT !.t = preSave(a.doc), !.pc = "complete_saveT"])
    /\ UNCHANGED <<users, tournament, transactions, now>>

(* tournament.save() after the in-place sort: $set of the changed paths,   *)
(* the participants array as a whole, guarded by the version               *)
CompleteSaveT(s, fail) ==
    LET r == reqs[s]
    IN  /\ r.pc = "complete_saveT"
        /\ IF fail \/ tournament = NoTournament
              THEN /\ Respond(s, r, "INTERNAL_ERROR", "Failed to complete tournament")
                   /\ UNCHANGED tournament
           ELSE IF tournament.v # r.t.v
              THEN /\ Respond(s, r, "INTERNAL_ERROR", "VersionError")
                   /\ UNCHANGED tournament
              ELSE /\ tournament' =
                         [tournament EXCEPT
                            !.status = r.t.status, !.phase = r.t.phase,
                            !.actualEndTime = r.t.actualEndTime,
                            !.participants = r.t.participants,
                            !.winner = r.t.winner,
                            !.topParticipants = r.t.topParticipants,
                            !.totalPrizes = r.t.totalPrizes,
                            !.totalRegistrations = r.t.totalRegistrations,
                            !.v = @ + 1]
                   /\ IF NextPaid(r.t, 0) = 0
                         THEN Respond(s, [r EXCEPT !.wT = TRUE], "OK",
                                      "Tournament completed successfully")
                         ELSE Step(s, [r EXCEPT !.wT = TRUE,
                                                !.i = NextPaid(r.t, 0),
                                                !.pc = "complete_readU"])
        /\ UNCHANGED <<users, transactions, now, budget>>

CompleteReadU(s) ==
    LET r == reqs[s]
        p == r.t.participants[r.i]
        u == users[p.user]
    IN  /\ r.pc = "complete_readU"
        /\ Step(s, [r EXCEPT !.u = addBalance(u, p.prize, "playable"),
                             !.u0 = u, !.wU = FALSE, !.wX = FALSE,
                             !.pc = "complete_saveU"])
        /\ UNCHANGED <<users, tournament, transactions, now, budget>>

CompleteSaveU(s, fail) ==
    LET r == reqs[s]
        p == r.t.participants[r.i]
        saved == SaveUser(users[p.user], r.u, r.u0)
    IN  /\ r.pc = "complete_saveU"
        /\ IF fail \/ ~ValidUser(r.u)
              THEN /\ Respond(s, r, "INTERNAL_ERROR", "Failed to complete tournament")
                   /\ UNCHANGED users
              ELSE /\ users' = [users EXCEPT ![p.user] = saved]
                   /\ Step(s, [r EXCEPT
                         !.wU = TRUE, !.pc = "complete_saveX",
                         !.aBefore = users[p.user].playableBalance,
                         !.aAfter = saved.playableBalance])
        /\ UNCHANGED <<tournament, transactions, now, budget>>

CompleteSaveX(s, fail) ==
    LET r == reqs[s]
        p == r.t.participants[r.i]
        x == NewTransaction(p.user, "tournament", "income", p.prize,
                            r.u.playableBalance - p.prize,
                            r.u.playableBalance, "completed", TournamentId,
                            p.rank, r.aBefore, r.aAfter)
    IN  /\ r.pc = "complete_saveX"
        /\ IF fail \/ ~ValidTransaction(x)
              THEN /\ Respond(s, r, "INTERNAL_ERROR", "Failed to complete tournament")
                   /\ UNCHANGED transactions
              ELSE /\ transactions' = Append(transactions, x)
                   /\ IF NextPaid(r.t, r.i) = 0
                         THEN Respond(s, [r EXCEPT !.wX = TRUE], "OK",
                                      "Tournament completed successfully")
                         ELSE Step(s, [r EXCEPT !.wX = TRUE,
                                                !.i = NextPaid(r.t, r.i),
                                                !.pc = "complete_readU"])
        /\ UNCHANGED <<users, tournament, now, budget>>

----------------------------------------------------------------------------
(* QuizSecurityService: the rules, the attempts kept per user and          *)
(* difficulty, and the set of suspicious users.  Times are milliseconds.   *)

Hour == 3600000
Day == 86400000
Week == 604800000

DefaultRules ==
    [maxDailyQuizzes |-> 10, maxHourlyQuizzes |-> 3,
     minTimeBetweenQuizzes |-> 30000, suspiciousScoreThreshold |-> 95,
     maxConsecutiveHighScores |-> 5, timePerQuestionMin |-> 5000,
     timePerQuestionMax |-> 300000]

(* rules an admin may set with updateSecurityRules *)
StrictRules ==
    [DefaultRules EXCEPT !.maxDailyQuizzes = 2, !.maxHourlyQuizzes = 2,
                         !.maxConsecutiveHighScores = 2]

DailyRules == [StrictRules EXCEPT !.maxHourlyQuizzes = 3]

RuleSets == {DefaultRules, StrictRules, DailyRules}

SecurityUsers == {"u1", "u2"}
Difficulties == {"easy", "hard"}
UserKeys == SecurityUsers \X Difficulties

(* an entry of userAttempts; present tells whether the map has the key *)
NoAttempts == [present |-> FALSE, daily |-> <<>>, hourly |-> <<>>,
               lastAttempt |-> 0, consecutiveHighScores |-> 0]

EmptyAttempts == [NoAttempts EXCEPT !.present = TRUE]

NoSecurityResult ==
    [op |-> "none", user |-> NoUser, difficulty |-> "easy", at |-> 0,
     allowed |-> FALSE, reason |-> "none", suspicious |-> FALSE, flags |-> 0,
     today |-> 0, hour |-> 0, recorded |-> 0, last |-> 0, flagged |-> FALSE,
     resetTime |-> NoDate]

(* log is the history of the recorded attempts of a key since its last     *)
(* reset; result is the outcome of the last call with what the history     *)
(* said when the call was made                                             *)
NewSecurity ==
    [rules |-> DefaultRules,
     attempts |-> [k \in UserKeys |-> NoAttempts],
     suspicious |-> {},
     log |-> [k \in UserKeys |-> <<>>],
     result |-> NoSecurityResult,
     advances |-> 0]

(* new Date().setHours(0, 0, 0, 0): the local midnight before at *)
TodayStart(at) == at - (at % Day)

Since(times, from) == SelectSeq(times, LAMBDA time : time >= from)

(* the entry of the key, created empty when the map does not have it *)
Entry(sec, key) ==
    IF sec.attempts[key].present THEN sec.attempts[key] ELSE EmptyAttempts

HistoryResult(sec, op, userId, difficulty, at) ==
    LET times == sec.log[<<userId, difficulty>>]
    IN  [NoSecurityResult EXCEPT
            !.op = op, !.user = userId, !.difficulty = difficulty, !.at = at,
            !.today = Len(Since(times, TodayStart(at))),
            !.hour = Len(Since(times, at - Hour)),
            !.recorded = Len(times),
            !.last = IF times = <<>> THEN 0 ELSE times[Len(times)],
            !.flagged = userId \in sec.suspicious]

(* the checks of canTakeQuiz on the entry of the key *)
DailyLimitReached_Above(rules, userData, at) ==
    Len(Since(userData.daily, TodayStart(at))) > rules.maxDailyQuizzes

DailyLimitReached(rules, userData, at) ==
    Len(Since(userData.daily, TodayStart(at))) >= rules.maxDailyQuizzes

HourlyLimitReached(rules, userData, at) ==
    Len(Since(userData.hourly, at - Hour)) >= rules.maxHourlyQuizzes

CooldownActive_Inclusive(rules, userData, at) ==
    /\ userData.lastAttempt # 0
    /\ at - userData.lastAttempt <= rules.minTimeBetweenQuizzes

CooldownActive(rules, userData, at) ==
    /\ userData.lastAttempt # 0
    /\ at - userData.lastAttempt < rules.minTimeBetweenQuizzes

DenialReason_HourlyFirst(sec, userId, userData, at) ==
    IF HourlyLimitReached(sec.rules, userData, at) THEN "HOURLY_LIMIT_EXCEEDED"
    ELSE IF DailyLimitReached(sec.rules, userData, at) THEN "DAILY_LIMIT_EXCEEDED"
    ELSE IF CooldownActive(sec.rules, userData, at) THEN "COOLDOWN_ACTIVE"
    ELSE IF userId \in sec.suspicious THEN "SUSPICIOUS_ACTIVITY"
    ELSE "none"

DenialReason(sec, userId, userData, at) ==
    IF DailyLimitReached(sec.rules, userData, at) THEN "DAILY_LIMIT_EXCEEDED"
    ELSE IF HourlyLimitReached(sec.rules, userData, at) THEN "HOURLY_LIMIT_EXCEEDED"
    ELSE IF CooldownActive(sec.rules, userData, at) THEN "COOLDOWN_ACTIVE"
    ELSE IF userId \in sec.suspicious THEN "SUSPICIOUS_ACTIVITY"
    ELSE "none"

(* the resetTime returned with the denial, NoDate for null *)
ResetTime(rules, userData, at, reason) ==
    IF reason = "DAILY_LIMIT_EXCEEDED" THEN TodayStart(at) + Day
    ELSE IF reason = "HOURLY_LIMIT_EXCEEDED" THEN (at - Hour) + Hour
    ELSE IF reason = "COOLDOWN_ACTIVE"
       THEN at + (rules.minTimeBetweenQuizzes - (at - userData.lastAttempt))
    ELSE NoDate

canTakeQuiz(sec, userId, difficulty, at) ==
    LET key == <<userId, difficulty>>
        userData == Entry(sec, key)
        reason == DenialReason(sec, userId, userData, at)
    IN  [sec EXCEPT
            !.attempts[key] = userData,
            !.result = [HistoryResult(sec, "canTakeQuiz", userId, difficulty, at)
                           EXCEPT !.allowed = (reason = "none"),
                                  !.reason = reason,
                                  !.resetTime =
                                      ResetTime(sec.rules, userData, at, reason)]]

(* an attempt: the score, the time spent and the answers, each answer with *)
(* its correctness and its time                                            *)
Answer(isCorrect, timeSpent) == [isCorrect |-> isCorrect, timeSpent |-> timeSpent]

(* the sums run over the times less the first answer's time: the variance  *)
(* is the same and the products stay small                                 *)
RECURSIVE SumTimes(_, _)
SumTimes(answers, base) ==
    IF answers = <<>> THEN 0
    ELSE (Head(answers).timeSpent - base) + SumTimes(Tail(answers), base)

RECURSIVE SumSquares(_, _)
SumSquares(answers, base) ==
    IF answers = <<>> THEN 0
    ELSE (Head(answers).timeSpent - base) * (Head(answers).timeSpent - base)
            + SumSquares(Tail(answers), base)

(* answers?.length || 1 *)
QuestionCount(answers) == IF Len(answers) = 0 THEN 1 ELSE Len(answers)

(* timeSpent / count < limit, without the division *)
TooFast(rules, attempt) ==
    attempt.timeSpent < rules.timePerQuestionMin * QuestionCount(attempt.answers)

TooSlow(rules, attempt) ==
    attempt.timeSpent > rules.timePerQuestionMax * QuestionCount(attempt.answers)

PerfectAndFast(attempt) ==
    /\ Len(attempt.answers) > 0
    /\ \A i \in 1..Len(attempt.answers) : attempt.answers[i].isCorrect
    /\ attempt.timeSpent < 10000 * QuestionCount(attempt.answers)

(* calculateVariance(times) < 1000: the mean of the squared differences    *)
(* from the mean, multiplied out by the square of the count                *)
ConsistentTiming(attempt) ==
    LET n == Len(attempt.answers)
        base == attempt.answers[1].timeSpent
        sum == SumTimes(attempt.answers, base)
    IN  /\ n > 3
        /\ n * SumSquares(attempt.answers, base) - sum * sum < 1000 * n * n

Flag(fired) == IF fired THEN 1 ELSE 0

IsSuspicious_OneFlag(suspiciousFlags) == suspiciousFlags >= 1

IsSuspicious(suspiciousFlags) == suspiciousFlags >= 2

(* returns the service with the updated streak, the flags and the verdict *)
detectSuspiciousActivity(sec, userId, difficulty, attempt) ==
    LET key == <<userId, difficulty>>
        userData == sec.attempts[key]
        high == attempt.score >= sec.rules.suspiciousScoreThreshold
        streak == IF high THEN userData.consecutiveHighScores + 1 ELSE 0
        suspiciousFlags ==
            Flag(high /\ streak >= sec.rules.maxConsecutiveHighScores)
            + Flag(TooFast(sec.rules, attempt))
            + Flag(TooSlow(sec.rules, attempt))
            + Flag(PerfectAndFast(attempt))
            + Flag(ConsistentTiming(attempt))
    IN  [sec |-> [sec EXCEPT !.attempts[key] =
                     [userData EXCEPT !.present = TRUE,
                                      !.consecutiveHighScores = streak]],
         flags |-> suspiciousFlags,
         isSuspicious |-> IsSuspicious(suspiciousFlags)]

recordQuizAttempt(sec, userId, difficulty, attempt, at) ==
    LET key == <<userId, difficulty>>
        userData == Entry(sec, key)
        recorded == [userData EXCEPT
                        !.daily = Since(Append(@, at), TodayStart(at)),
                        !.hourly = Since(Append(@, at), at - Hour),
                        !.lastAttempt = at]
        d == detectSuspiciousActivity([sec EXCEPT !.attempts[key] = recorded],
                                      userId, difficulty, attempt)
    IN  [d.sec EXCEPT
            !.suspicious = IF d.isSuspicious THEN @ \cup {userId} ELSE @,
            !.log[key] = Append(@, at),
            !.result = [HistoryResult(sec, "recordQuizAttempt", userId,
                                      difficulty, at)
                           EXCEPT !.suspicious = d.isSuspicious,
                                  !.flags = d.flags]]

clearSuspiciousFlag(sec, userId) ==
    [sec EXCEPT !.suspicious = @ \ {userId},
                !.result = [NoSecurityResult EXCEPT
                               !.op = "clearSuspiciousFlag"]]

updateSecurityRules(sec, newRules) ==
    [sec EXCEPT !.rules = newRules,
                !.result = [NoSecurityResult EXCEPT !.op = "updateSecurityRules"]]

resetUserAttempts_ClearsFlag(sec, userId, difficulty) ==
    [sec EXCEPT !.attempts[<<userId, difficulty>>] = NoAttempts,
                !.log[<<userId, difficulty>>] = <<>>,
                !.suspicious = @ \ {userId},
                !.result = [NoSecurityResult EXCEPT
                               !.op = "resetUserAttempts"]]

resetUserAttempts(sec, userId, difficulty) ==
    [sec EXCEPT !.attempts[<<userId, difficulty>>] = NoAttempts,
                !.log[<<userId, difficulty>>] = <<>>,
                !.result = [NoSecurityResult EXCEPT
                               !.op = "resetUserAttempts"]]

(* the hourly sweep: attempts older than a week are dropped and entries    *)
(* left without attempts are deleted                                       *)
cleanup(sec, at) ==
    [sec EXCEPT
        !.attempts =
            [k \in UserKeys |->
                LET swept == [sec.attempts[k] EXCEPT
                                 !.daily = Since(@, at - Week),
                                 !.hourly = Since(@, at - Week)]
                IN  IF ~sec.attempts[k].present THEN NoAttempts
                    ELSE IF swept.daily = <<>> /\ swept.hourly = <<>>
                            THEN NoAttempts
                            ELSE swept],
        !.result = [NoSecurityResult EXCEPT !.op = "cleanup"]]

----------------------------------------------------------------------------
(* The clock every new Date() reads *)

Tick ==
    /\ now < MaxTime
    /\ now' = now + 1
    /\ UNCHANGED <<users, tournament, transactions, reqs, pre, res, budget,
                 security>>

----------------------------------------------------------------------------
(* Specification of the create handler alone: one request at a time, the   *)
(* users start with the playable balance earlier quiz submissions credited *)
(* them.                                                                   *)

InitialPlayable == [u \in Users |->
                       IF u = "u1" THEN 10 ELSE IF u = "u2" THEN 5 ELSE 0]

FundedUser(amount) ==
    [NewUser EXCEPT !.playableBalance = amount, !.balance = amount,
                    !.totalEarned = amount]

InitCreate ==
    /\ users = [u \in Users |-> FundedUser(InitialPlayable[u])]
    /\ tournament = NoTournament
    /\ transactions = <<>>
    /\ now = 0
    /\ reqs = [s \in Slots |-> Idle]
    /\ pre = NoSnapshot
    /\ res = NoResult
    /\ security = NewSecurity
    /\ budget = Unbounded

NextCreate ==
    \/ \E s \in Slots, u \in Users, body \in CreateBodies :
           CreateReadU(s, u, body, TRUE)
    \/ \E s \in Slots : CreateSaveT(s, FALSE)
    \/ \E s \in Slots : CreateSaveU(s, FALSE)
    \/ \E s \in Slots : CreateSaveX(s, FALSE)
    \/ Tick

SpecCreate == InitCreate /\ [][NextCreate]_vars

----------------------------------------------------------------------------
(* Sequential specification of the tournament lifecycle: one request at a  *)
(* time, every write succeeds.  It starts in the state the create handler  *)
(* leaves: u1 has created the tournament at time 0 and paid its entry fee. *)

Creator == "u1"

CreatedBodies ==
    [entryFee : {5}, prizePool : {10}, maxParticipants : RosterSizes,
     minParticipants : {Absent}, registrationStart : {1},
     registrationEnd : {2}, startTime : {3}, endTime : {4},
     isPrivate : BOOLEAN]

CreatedUsers(body) ==
    [u \in Users |->
        IF u = Creator
           THEN deductBalance(FundedUser(InitialPlayable[u]), body.entryFee,
                              "playable").doc
           ELSE FundedUser(InitialPlayable[u])]

CreatedTransactions(body) ==
    <<NewTransaction(Creator, "tournament", "expense", body.entryFee,
                     InitialPlayable[Creator],
                     InitialPlayable[Creator] - body.entryFee, "completed",
                     TournamentId, 0, InitialPlayable[Creator],
                     InitialPlayable[Creator] - body.entryFee)>>

Init ==
    \E body \in CreatedBodies :
        /\ users = CreatedUsers(body)
        /\ tournament = preSave(NewTournament(body, Creator))
        /\ transactions = CreatedTransactions(body)
        /\ now = 0
        /\ reqs = [s \in Slots |-> Idle]
        /\ pre = NoSnapshot
        /\ res = NoResult
        /\ security = NewSecurity
        /\ budget = Unbounded

Next ==
    \/ \E s \in Slots, u \in Users \cup {AdminId}, body \in UpdateBodies :
           UpdateReadT(s, u, body, TRUE)
    \/ \E s \in Slots : UpdateWrite(s, FALSE)
    \/ \E s \in Slots, u \in Users : JoinReadT(s, u, TRUE)
    \/ \E s \in Slots : JoinReadU(s)
    \/ \E s \in Slots : JoinSaveT(s, FALSE)
    \/ \E s \in Slots : JoinSaveU(s, FALSE)
    \/ \E s \in Slots : JoinSaveX(s, FALSE)
    \/ \E s \in Slots, u \in Users : LeaveReadT(s, u, TRUE)
    \/ \E s \in Slots : LeaveSaveT(s, FALSE)
    \/ \E s \in Slots : LeaveReadU(s)
    \/ \E s \in Slots : LeaveSaveU(s, FALSE)
    \/ \E s \in Slots : LeaveSaveX(s, FALSE)
    \/ \E s \in Slots : StartReadT(s, TRUE)
    \/ \E s \in Slots : StartSaveT(s, FALSE)
    \/ \E s \in Slots : CompleteReadT(s, TRUE)
    \/ \E s \in Slots : CompleteSaveT(s, FALSE)
    \/ \E s \in Slots : CompleteReadU(s)
    \/ \E s \in Slots : CompleteSaveU(s, FALSE)
    \/ \E s \in Slots : CompleteSaveX(s, FALSE)
    \/ Tick

Spec == Init /\ [][Next]_vars

----------------------------------------------------------------------------
(* Specification of the tournament lifecycle under overlapping requests    *)
(* and failing writes: up to MaxRequests requests, two of them in flight   *)
(* at a time, each persistence write either commits or throws.  The clock  *)
(* stands still inside the registration window.                            *)

InitRace ==
    \E body \in {b \in CreatedBodies : ~b.isPrivate} :
        /\ users = CreatedUsers(body)
        /\ tournament = preSave(NewTournament(body, Creator))
        /\ transactions = CreatedTransactions(body)
        /\ now = body.registrationStart
        /\ reqs = [s \in Slots |-> Idle]
        /\ pre = NoSnapshot
        /\ res = NoResult
        /\ security = NewSecurity
        /\ budget = 0

NextRace ==
    \/ \E s \in Slots, body \in UpdateBodies :
           UpdateReadT(s, Creator, body, FALSE)
    \/ \E s \in Slots, fail \in BOOLEAN : UpdateWrite(s, fail)
    \/ \E s \in Slots, u \in Users : JoinReadT(s, u, FALSE)
    \/ \E s \in Slots : JoinReadU(s)
    \/ \E s \in Slots, fail \in BOOLEAN : JoinSaveT(s, fail)
    \/ \E s \in Slots, fail \in BOOLEAN : JoinSaveU(s, fail)
    \/ \E s \in Slots, fail \in BOOLEAN : JoinSaveX(s, fail)
    \/ \E s \in Slots, u \in Users : LeaveReadT(s, u, FALSE)
    \/ \E s \in Slots, fail \in BOOLEAN : LeaveSaveT(s, fail)
    \/ \E s \in Slots : LeaveReadU(s)
    \/ \E s \in Slots, fail \in BOOLEAN : LeaveSaveU(s, fail)
    \/ \E s \in Slots, fail \in BOOLEAN : LeaveSaveX(s, fail)
    \/ \E s \in Slots : StartReadT(s, FALSE)
    \/ \E s \in Slots, fail \in BOOLEAN : StartSaveT(s, fail)
    \/ \E s \in Slots : CompleteReadT(s, FALSE)
    \/ \E s \in Slots, fail \in BOOLEAN : CompleteSaveT(s, fail)
    \/ \E s \in Slots : CompleteReadU(s)
    \/ \E s \in Slots, fail \in BOOLEAN : CompleteSaveU(s, fail)
    \/ \E s \in Slots, fail \in BOOLEAN : CompleteSaveX(s, fail)

SpecRace == InitRace /\ [][NextRace]_vars

----------------------------------------------------------------------------
(* Sequential specification of scoring and completion: the tournament has  *)
(* been started with a roster of two or three users; scores are recorded   *)
(* while it is active and an admin completes it.                           *)

Scores == {0, 1, 2}
TimesSpent == {0, 1}

Rosters == {<<"u1", "u2">>, <<"u1", "u2", "u3">>, <<"u3", "u2", "u1">>}

PrizeDistributions ==
    {<<>>,
     <<[rank |-> 1, prize |-> 5, percentage |-> 50],
       [rank |-> 2, prize |-> 3, percentage |-> 30],
       [rank |-> 3, prize |-> 2, percentage |-> 20]>>,
     <<[rank |-> 2, prize |-> 4, percentage |-> 40]>>}

RosteredTournament(body, roster, distribution) ==
    preSave([NewTournament(body, Creator) EXCEPT
                !.maxParticipants = Len(roster),
                !.participants =
                    [i \in 1..Len(roster) |->
                        NewParticipant(roster[i], body.registrationStart)],
                !.prizeDistribution = distribution,
                !.v = Len(roster)])

StartedTournament(body, roster, distribution) ==
    startTournament(RosteredTournament(body, roster, distribution),
                    body.startTime).doc

InitComplete ==
    \E body \in CreatedBodies, roster \in Rosters,
       distribution \in PrizeDistributions :
        /\ users = [u \in Users |-> FundedUser(InitialPlayable[u])]
        /\ tournament = StartedTournament(body, roster, distribution)
        /\ transactions = <<>>
        /\ now = body.startTime
        /\ reqs = [s \in Slots |-> Idle]
        /\ pre = NoSnapshot
        /\ res = NoResult
        /\ security = NewSecurity
        /\ budget = Unbounded

(* a participant's result is recorded: updateParticipantScore and save *)
UpdateScore(userId, score, timeSpent) ==
    /\ AllIdle
    /\ tournament.status = "active"
    /\ updateParticipantScore(tournament, userId, score, timeSpent).err = "OK"
    /\ tournament' = updateParticipantScore(tournament, userId, score, timeSpent).doc
    /\ UNCHANGED <<users, transactions, now, reqs, pre, res, budget, security>>

NextComplete ==
    \/ \E u \in Users, score \in Scores, timeSpent \in TimesSpent :
           UpdateScore(u, score, timeSpent)
    \/ \E s \in Slots : CompleteReadT(s, TRUE)
    \/ \E s \in Slots : CompleteSaveT(s, FALSE)
    \/ \E s \in Slots : CompleteReadU(s)
    \/ \E s \in Slots : CompleteSaveU(s, FALSE)
    \/ \E s \in Slots : CompleteSaveX(s, FALSE)

SpecComplete == InitComplete /\ [][NextComplete]_vars

----------------------------------------------------------------------------
(* Specification of score recording over the whole life of a tournament:   *)
(* the roster is registered, an admin starts and completes the tournament, *)
(* and updateParticipantScore is called at any moment.                     *)

InitScore ==
    \E body \in CreatedBodies, roster \in {r \in Rosters : Len(r) = 2},
       distribution \in PrizeDistributions :
        /\ users = [u \in Users |-> FundedUser(InitialPlayable[u])]
        /\ tournament = RosteredTournament(body, roster, distribution)
        /\ transactions = <<>>
        /\ now = body.startTime
        /\ reqs = [s \in Slots |-> Idle]
        /\ pre = NoSnapshot
        /\ res = NoResult
        /\ security = NewSecurity
        /\ budget = Unbounded

(* updateParticipantScore and save, whatever the status *)
UpdateParticipantScore(userId, score, timeSpent) ==
    /\ AllIdle
    /\ updateParticipantScore(tournament, userId, score, timeSpent).err = "OK"
    /\ tournament' = updateParticipantScore(tournament, userId, score, timeSpent).doc
    /\ UNCHANGED <<users, transactions, now, reqs, pre, res, budget, security>>

NextScore ==
    \/ \E u \in Users, score \in Scores : UpdateParticipantScore(u, score, 0)
    \/ \E s \in Slots : StartReadT(s, TRUE)
    \/ \E s \in Slots : StartSaveT(s, FALSE)
    \/ \E s \in Slots : CompleteReadT(s, TRUE)
    \/ \E s \in Slots : CompleteSaveT(s, FALSE)
    \/ \E s \in Slots : CompleteReadU(s)
    \/ \E s \in Slots : CompleteSaveU(s, FALSE)
    \/ \E s \in Slots : CompleteSaveX(s, FALSE)

SpecScore == InitScore /\ [][NextScore]_vars

----------------------------------------------------------------------------
(* Specification of repeated and overlapping completions: up to            *)
(* MaxRequests complete requests on a started tournament, two of them in   *)
(* flight at a time, each write either commits or throws.                  *)

InitCompleteRace ==
    \E body \in CreatedBodies, roster \in Rosters,
       distribution \in PrizeDistributions :
        /\ users = [u \in Users |-> FundedUser(InitialPlayable[u])]
        /\ tournament = StartedTournament(body, roster, distribution)
        /\ transactions = <<>>
        /\ now = body.startTime
        /\ reqs = [s \in Slots |-> Idle]
        /\ pre = NoSnapshot
        /\ res = NoResult
        /\ security = NewSecurity
        /\ budget = 0

NextCompleteRace ==
    \/ \E u \in Users, score \in Scores : UpdateScore(u, score, 0)
    \/ \E s \in Slots : CompleteReadT(s, FALSE)
    \/ \E s \in Slots, fail \in BOOLEAN : CompleteSaveT(s, fail)
    \/ \E s \in Slots : CompleteReadU(s)
    \/ \E s \in Slots, fail \in BOOLEAN : CompleteSaveU(s, fail)
    \/ \E s \in Slots, fail \in BOOLEAN : CompleteSaveX(s, fail)

SpecCompleteRace == InitCompleteRace /\ [][NextCompleteRace]_vars

----------------------------------------------------------------------------
(* POST /api/transactions/deposit and PUT /deposits/:id/approve *)

MinDeposit == 10
MaxDeposit == 10000

DepositAmounts == {5, 10}

DepositReadU(s, userId, amount, seq) ==
    /\ Admit(s, seq)
    /\ LET u == users[userId]
           r == [NewRequest("deposit", userId, seq) EXCEPT !.amount = amount]
           x == NewTransaction(userId, "deposit", "income", amount,
                               u.playableBalance, u.playableBalance,
                               "pending", NoTournamentId, 0, NoDate, NoDate)
       IN  IF amount < MinDeposit
              THEN Respond(s, r, "MIN_DEPOSIT_ERROR", "Minimum deposit amount")
           ELSE IF amount > MaxDeposit
              THEN Respond(s, r, "MAX_DEPOSIT_ERROR", "Maximum deposit amount")
           ELSE /\ Len(transactions) < MaxTxns
                /\ u.totalEarned + amount <= MaxMoney
                /\ Enter(s, [r EXCEPT !.xdoc = x, !.pc = "deposit_saveX"])
    /\ UNCHANGED <<users, tournament, transactions, now>>

DepositSaveX(s, fail) ==
    LET r == reqs[s]
    IN  /\ r.pc = "deposit_saveX"
        /\ IF fail \/ ~ValidTransaction(r.xdoc)
              THEN /\ Respond(s, r, "INTERNAL_ERROR", "Failed to create deposit request")
                   /\ UNCHANGED transactions
              ELSE /\ transactions' = Append(transactions, r.xdoc)
                   /\ Respond(s, [r EXCEPT !.wX = TRUE], "OK",
                              "Deposit request created successfully")
        /\ UNCHANGED <<users, tournament, now, budget>>

(* transactionSchema.methods.approve *)
approve(x) ==
    IF x.status # "pending"
       THEN [doc |-> x, err |-> "Only pending transactions can be approved"]
       ELSE [doc |-> [x EXCEPT !.status = "completed"], err |-> "OK"]

TransactionIds == 1..MaxTxns

ApproveReadX(s, id, seq) ==
    /\ Admit(s, seq)
    /\ LET r == [NewRequest("approve_deposit", AdminId, seq) EXCEPT !.x = id]
       IN  IF id > Len(transactions)
              THEN Respond(s, r, "DEPOSIT_NOT_FOUND", "Deposit not found")
           ELSE IF transactions[id].type # "deposit"
              THEN Respond(s, r, "INVALID_TRANSACTION_TYPE",
                           "Transaction is not a deposit")
           ELSE IF transactions[id].status # "pending"
              THEN Respond(s, r, "DEPOSIT_ALREADY_PROCESSED",
                           "Deposit has already been processed")
           ELSE Enter(s, [r EXCEPT !.xdoc = approve(transactions[id]).doc,
                                   !.amount = transactions[id].amount,
                                   !.pc = "approve_saveX"])
    /\ UNCHANGED <<users, tournament, transactions, now>>

ApproveSaveX(s, fail) ==
    LET r == reqs[s]
    IN  /\ r.pc = "approve_saveX"
        /\ IF fail
              THEN /\ Respond(s, r, "INTERNAL_ERROR", "Failed to approve deposit")
                   /\ UNCHANGED transactions
              ELSE /\ transactions' = [transactions EXCEPT
                                          ![r.x].status = r.xdoc.status]
                   /\ Step(s, [r EXCEPT !.wX = TRUE, !.pc = "approve_readU"])
        /\ UNCHANGED <<users, tournament, now, budget>>

ApproveReadU(s) ==
    LET r == reqs[s]
        u == users[r.xdoc.userId]
    IN  /\ r.pc = "approve_readU"
        /\ Step(s, [r EXCEPT
              !.u = [addBalance(u, r.xdoc.amount, "playable") EXCEPT
                        !.hasDeposited = TRUE],
              !.u0 = u, !.pc = "approve_saveU"])
        /\ UNCHANGED <<users, tournament, transactions, now, budget>>

ApproveSaveU(s, fail) ==
    LET r == reqs[s]
        saved == SaveUser(users[r.xdoc.userId], r.u, r.u0)
    IN  /\ r.pc = "approve_saveU"
        /\ IF fail \/ ~ValidUser(r.u)
              THEN /\ Respond(s, r, "INTERNAL_ERROR", "Failed to approve deposit")
                   /\ UNCHANGED users
              ELSE /\ users' = [users EXCEPT ![r.xdoc.userId] = saved]
                   /\ Step(s, [r EXCEPT
                         !.wU = TRUE, !.pc = "approve_saveX2",
                         !.xdoc = [r.xdoc EXCEPT
                                     !.balanceAfter = r.u.playableBalance],
                         !.aBefore = users[r.xdoc.userId].playableBalance,
                         !.aAfter = saved.playableBalance])
        /\ UNCHANGED <<tournament, transactions, now, budget>>

ApproveSaveX2(s, fail) ==
    LET r == reqs[s]
    IN  /\ r.pc = "approve_saveX2"
        /\ IF fail \/ ~ValidTransaction(r.xdoc)
              THEN /\ Respond(s, r, "INTERNAL_ERROR", "Failed to approve deposit")
                   /\ UNCHANGED transactions
              ELSE /\ transactions' = [transactions EXCEPT
                                          ![r.x].balanceAfter = r.xdoc.balanceAfter,
                                          ![r.x].actualBefore = r.aBefore,
                                          ![r.x].actualAfter = r.aAfter]
                   /\ Respond(s, r, "OK", "Deposit approved successfully")
        /\ UNCHANGED <<users, tournament, now, budget>>

----------------------------------------------------------------------------
(* POST /api/transactions/withdrawals and PUT /withdrawals/:id/approve *)

MinWithdrawal == 10
MaxWithdrawal == 5000

WithdrawalAmounts == {5, 10}

(* withdrawalEnabled and isVerified are set by routes outside the model    *)
(* and hold for the users of the runs                                      *)
canWithdraw(doc) == doc.hasDeposited

WithdrawReadU(s, userId, amount, seq) ==
    /\ Admit(s, seq)
    /\ LET u == users[userId]
           r == [NewRequest("withdraw", userId, seq) EXCEPT !.amount = amount]
           x == NewTransaction(userId, "withdrawal", "expense", amount,
                               u.playableBalance, u.playableBalance,
                               "pending", NoTournamentId, 0, NoDate, NoDate)
       IN  IF ~canWithdraw(u)
              THEN Respond(s, r, "WITHDRAWAL_NOT_ALLOWED", "Withdrawal is not allowed")
           ELSE IF amount < MinWithdrawal
              THEN Respond(s, r, "MIN_WITHDRAWAL_ERROR", "Minimum withdrawal amount")
           ELSE IF amount > MaxWithdrawal
              THEN Respond(s, r, "MAX_WITHDRAWAL_ERROR", "Maximum withdrawal amount")
           ELSE IF u.playableBalance < amount
              THEN Respond(s, r, "INSUFFICIENT_BALANCE",
                           "Insufficient balance for withdrawal")
           ELSE /\ Len(transactions) < MaxTxns
                /\ Enter(s, [r EXCEPT !.xdoc = x, !.pc = "withdraw_saveX"])
    /\ UNCHANGED <<users, tournament, transactions, now>>

WithdrawSaveX(s, fail) ==
    LET r == reqs[s]
    IN  /\ r.pc = "withdraw_saveX"
        /\ IF fail \/ ~ValidTransaction(r.xdoc)
              THEN /\ Respond(s, r, "INTERNAL_ERROR",
                              "Failed to create withdrawal request")
                   /\ UNCHANGED transactions
              ELSE /\ transactions' = Append(transactions, r.xdoc)
                   /\ Respond(s, [r EXCEPT !.wX = TRUE], "OK",
                              "Withdrawal request created successfully")
        /\ UNCHANGED <<users, tournament, now, budget>>

PayoutReadX(s, id, seq) ==
    /\ Admit(s, seq)
    /\ LET r == [NewRequest("approve_withdrawal", AdminId, seq) EXCEPT !.x = id]
       IN  IF id > Len(transactions)
              THEN Respond(s, r, "WITHDRAWAL_NOT_FOUND", "Withdrawal not found")
           ELSE IF transactions[id].type # "withdrawal"
              THEN Respond(s, r, "INVALID_TRANSACTION_TYPE",
                           "Transaction is not a withdrawal")
           ELSE IF transactions[id].status # "pending"
              THEN Respond(s, r, "WITHDRAWAL_ALREADY_PROCESSED",
                           "Withdrawal has already been processed")
           ELSE Enter(s, [r EXCEPT !.xdoc = approve(transactions[id]).doc,
                                   !.user = transactions[id].userId,
                                   !.amount = transactions[id].amount,
                                   !.pc = "payout_saveX"])
    /\ UNCHANGED <<users, tournament, transactions, now>>

PayoutSaveX(s, fail) ==
    LET r == reqs[s]
    IN  /\ r.pc = "payout_saveX"
        /\ IF fail
              THEN /\ Respond(s, r, "INTERNAL_ERROR", "Failed to approve withdrawal")
                   /\ UNCHANGED transactions
              ELSE /\ transactions' = [transactions EXCEPT
                                          ![r.x].status = r.xdoc.status]
                   /\ Step(s, [r EXCEPT !.wX = TRUE, !.pc = "payout_readU"])
        /\ UNCHANGED <<users, tournament, now, budget>>

(* user.deductBalance(withdrawal.amount, 'playable'): the boolean it       *)
(* returns is not looked at                                                *)
PayoutReadU(s) ==
    LET r == reqs[s]
        u == users[r.xdoc.userId]
    IN  /\ r.pc = "payout_readU"
        /\ Step(s, [r EXCEPT
              !.u = deductBalance(u, r.xdoc.amount, "playable").doc,
              !.u0 = u, !.pc = "payout_saveU"])
        /\ UNCHANGED <<users, tournament, transactions, now, budget>>

PayoutSaveU(s, fail) ==
    LET r == reqs[s]
        saved == SaveUser(users[r.xdoc.userId], r.u, r.u0)
    IN  /\ r.pc = "payout_saveU"
        /\ IF fail \/ ~ValidUser(r.u)
              THEN /\ Respond(s, r, "INTERNAL_ERROR", "Failed to approve withdrawal")
                   /\ UNCHANGED users
              ELSE /\ users' = [users EXCEPT ![r.xdoc.userId] = saved]
                   /\ Step(s, [r EXCEPT
                         !.wU = (r.u # r.u0), !.pc = "payout_saveX2",
                         !.xdoc = [r.xdoc EXCEPT
                                     !.balanceAfter = r.u.playableBalance],
                         !.aBefore = users[r.xdoc.userId].playableBalance,
                         !.aAfter = saved.playableBalance])
        /\ UNCHANGED <<tournament, transactions, now, budget>>

PayoutSaveX2(s, fail) ==
    LET r == reqs[s]
    IN  /\ r.pc = "payout_saveX2"
        /\ IF fail \/ ~ValidTransaction(r.xdoc)
              THEN /\ Respond(s, r, "INTERNAL_ERROR", "Failed to approve withdrawal")
                   /\ UNCHANGED transactions
              ELSE /\ transactions' = [transactions EXCEPT
                                          ![r.x].balanceAfter = r.xdoc.balanceAfter,
                                          ![r.x].actualBefore = r.aBefore,
                                          ![r.x].actualAfter = r.aAfter]
                   /\ Respond(s, r, "OK", "Withdrawal approved successfully")
        /\ UNCHANGED <<users, tournament, now, budget>>

----------------------------------------------------------------------------
(* POST /api/quiz/submit: the points of the correct answers are credited   *)
(* to the playable balance                                                 *)

QuizPoints == {0, 5}

QuizReadU(s, userId, totalPoints, seq) ==
    /\ Admit(s, seq)
    /\ users[userId].totalEarned + totalPoints <= MaxMoney
    /\ LET u == users[userId]
           r == [NewRequest("quiz", userId, seq) EXCEPT !.amount = totalPoints]
       IN  Enter(s, [r EXCEPT
                 !.u = IF totalPoints > 0
                          THEN addBalance(u, totalPoints, "playable") ELSE u,
                 !.u0 = u, !.pc = "quiz_saveU"])
    /\ UNCHANGED <<users, tournament, transactions, now>>

QuizSaveU(s, fail) ==
    LET r == reqs[s]
    IN  /\ r.pc = "quiz_saveU"
        /\ IF fail \/ ~ValidUser(r.u)
              THEN /\ Respond(s, r, "INTERNAL_ERROR", "Failed to submit quiz")
                   /\ UNCHANGED users
              ELSE /\ users' = [users EXCEPT
                                  ![r.user] = SaveUser(@, r.u, r.u0)]
                   /\ Respond(s, [r EXCEPT !.wU = TRUE], "OK",
                              "Quiz submitted successfully")
        /\ UNCHANGED <<tournament, transactions, now, budget>>

----------------------------------------------------------------------------
(* PUT /api/admin/users/:id/balance: adjust a user's balance *)

AdjustAmounts == {5, 10}
AdjustOperations == {"add", "subtract", "set"}

Max(a, b) == IF a >= b THEN a ELSE b

(* the switch over the operation: the new value of the bucket *)
NewAmount(operation, currentBalance, amount) ==
    IF operation = "add" THEN currentBalance + amount
    ELSE IF operation = "subtract" THEN Max(0, currentBalance - amount)
    ELSE IF operation = "set" THEN Max(0, amount)
    ELSE 0

AdjustReadU(s, userId, amount, type, operation, seq) ==
    /\ Admit(s, seq)
    /\ LET u == users[userId]
           currentBalance == Bucket(u, type)
           newAmount == NewAmount(operation, currentBalance, amount)
           u1 == IF type = "playable"
                    THEN [u EXCEPT !.playableBalance = newAmount]
                    ELSE [u EXCEPT !.bonusBalance = newAmount]
           r == [NewRequest(operation, userId, seq) EXCEPT
                    !.amount = amount, !.type = type]
       IN  /\ newAmount <= MaxMoney
           /\ Enter(s, [r EXCEPT
                 !.u = [u1 EXCEPT !.balance = u1.playableBalance + u1.bonusBalance],
                 !.u0 = u, !.pc = "adjust_saveU"])
    /\ UNCHANGED <<users, tournament, transactions, now>>

AdjustSaveU(s, fail) ==
    LET r == reqs[s]
        saved == SaveUser(users[r.user], r.u, r.u0)
    IN  /\ r.pc = "adjust_saveU"
        /\ IF fail \/ ~ValidUser(r.u)
              THEN /\ Respond(s, r, "INTERNAL_ERROR", "Failed to adjust user balance")
                   /\ UNCHANGED users
              ELSE /\ users' = [users EXCEPT ![r.user] = saved]
                   /\ Step(s, [r EXCEPT
                         !.wU = TRUE, !.pc = "adjust_saveX",
                         !.aBefore = Bucket(users[r.user], r.type),
                         !.aAfter = Bucket(saved, r.type)])
        /\ UNCHANGED <<tournament, transactions, now, budget>>

AdjustSaveX(s, fail) ==
    LET r == reqs[s]
        currentBalance == Bucket(r.u0, r.type)
        newAmount == Bucket(r.u, r.type)
        x == NewTransaction(r.user, "admin_adjustment",
                            IF r.op = "subtract" THEN "expense" ELSE "income",
                            Max(newAmount - currentBalance,
                                currentBalance - newAmount),
                            currentBalance, newAmount, "completed",
                            NoTournamentId, 0, r.aBefore, r.aAfter)
    IN  /\ r.pc = "adjust_saveX"
        /\ IF fail \/ ~ValidTransaction(x)
              THEN /\ Respond(s, r, "INTERNAL_ERROR", "Failed to adjust user balance")
                   /\ UNCHANGED transactions
              ELSE /\ transactions' = Append(transactions, x)
                   /\ Respond(s, [r EXCEPT !.wX = TRUE], "OK",
                              "User balance adjusted successfully")
        /\ UNCHANGED <<users, tournament, now, budget>>

----------------------------------------------------------------------------
(* Sequential specification of the wallet: deposits and their approval,    *)
(* quiz credits and admin adjustments of two users who start with nothing. *)

WalletUsers == {"u1", "u2"}

InitWallet ==
    /\ users = [u \in Users |-> NewUser]
    /\ tournament = NoTournament
    /\ transactions = <<>>
    /\ now = 0
    /\ reqs = [s \in Slots |-> Idle]
    /\ pre = NoSnapshot
    /\ res = NoResult
    /\ security = NewSecurity
    /\ budget = 0

NextWallet ==
    \/ \E s \in Slots, u \in WalletUsers, amount \in DepositAmounts :
           DepositReadU(s, u, amount, TRUE)
    \/ \E s \in Slots : DepositSaveX(s, FALSE)
    \/ \E s \in Slots, id \in TransactionIds : ApproveReadX(s, id, TRUE)
    \/ \E s \in Slots : ApproveSaveX(s, FALSE)
    \/ \E s \in Slots : ApproveReadU(s)
    \/ \E s \in Slots : ApproveSaveU(s, FALSE)
    \/ \E s \in Slots : ApproveSaveX2(s, FALSE)
    \/ \E s \in Slots, u \in WalletUsers, points \in QuizPoints :
           QuizReadU(s, u, points, TRUE)
    \/ \E s \in Slots : QuizSaveU(s, FALSE)
    \/ \E s \in Slots, u \in WalletUsers, amount \in AdjustAmounts,
          type \in BalanceTypes, operation \in AdjustOperations :
           AdjustReadU(s, u, amount, type, operation, TRUE)
    \/ \E s \in Slots : AdjustSaveU(s, FALSE)
    \/ \E s \in Slots : AdjustSaveX(s, FALSE)

SpecWallet == InitWallet /\ [][NextWallet]_vars

----------------------------------------------------------------------------
(* Specification of withdrawals: a user who has deposited, and one who has *)
(* not, ask for withdrawals and an admin approves them, one request at a   *)
(* time, every write committing.                                           *)

WithdrawalFunds == 20

InitWithdraw ==
    /\ users = [u \in Users |->
                  IF u = "u1"
                     THEN [FundedUser(WithdrawalFunds) EXCEPT !.hasDeposited = TRUE]
                     ELSE NewUser]
    /\ tournament = NoTournament
    /\ transactions = <<>>
    /\ now = 0
    /\ reqs = [s \in Slots |-> Idle]
    /\ pre = NoSnapshot
    /\ res = NoResult
    /\ security = NewSecurity
    /\ budget = Unbounded

NextWithdraw ==
    \/ \E s \in Slots, u \in WalletUsers, amount \in WithdrawalAmounts :
           WithdrawReadU(s, u, amount, TRUE)
    \/ \E s \in Slots : WithdrawSaveX(s, FALSE)
    \/ \E s \in Slots, id \in TransactionIds : PayoutReadX(s, id, TRUE)
    \/ \E s \in Slots : PayoutSaveX(s, FALSE)
    \/ \E s \in Slots : PayoutReadU(s)
    \/ \E s \in Slots : PayoutSaveU(s, FALSE)
    \/ \E s \in Slots : PayoutSaveX2(s, FALSE)

SpecWithdraw == InitWithdraw /\ [][NextWithdraw]_vars

(* the same requests, two of them in flight at a time *)
NextWithdrawRace ==
    \/ \E s \in Slots, u \in WalletUsers, amount \in WithdrawalAmounts :
           WithdrawReadU(s, u, amount, FALSE)
    \/ \E s \in Slots : WithdrawSaveX(s, FALSE)
    \/ \E s \in Slots, id \in TransactionIds : PayoutReadX(s, id, FALSE)
    \/ \E s \in Slots : PayoutSaveX(s, FALSE)
    \/ \E s \in Slots : PayoutReadU(s)
    \/ \E s \in Slots : PayoutSaveU(s, FALSE)
    \/ \E s \in Slots : PayoutSaveX2(s, FALSE)

SpecWithdrawRace == InitWithdraw /\ [][NextWithdrawRace]_vars

----------------------------------------------------------------------------
(* Ledger specification: the two ledger methods applied, in any order and  *)
(* on either bucket, to one user document.                                 *)

LedgerUser == "u1"
LedgerAmounts == {0, 5, 10}

InitLedger ==
    /\ users = [u \in Users |-> NewUser]
    /\ tournament = NoTournament
    /\ transactions = <<>>
    /\ now = 0
    /\ reqs = [s \in Slots |-> Idle]
    /\ pre = NoSnapshot
    /\ res = NoResult
    /\ security = NewSecurity
    /\ budget = 0

LedgerCredit ==
    \E amount \in LedgerAmounts, type \in BalanceTypes :
        /\ users[LedgerUser].totalEarned + amount <= MaxMoney
        /\ users' = [users EXCEPT ![LedgerUser] = addBalance(@, amount, type)]
        /\ pre' = Snapshot
        /\ res' = [NoResult EXCEPT !.op = "credit", !.user = LedgerUser,
                                      !.code = "OK", !.amount = amount,
                                      !.type = type]
        /\ UNCHANGED <<tournament, transactions, now, reqs, budget, security>>

LedgerDebit ==
    \E amount \in LedgerAmounts, type \in BalanceTypes :
        LET r == deductBalance(users[LedgerUser], amount, type)
        IN  /\ users' = [users EXCEPT ![LedgerUser] = r.doc]
            /\ pre' = Snapshot
            /\ res' = [NoResult EXCEPT
                          !.op = "debit", !.user = LedgerUser,
                          !.code = IF r.ok THEN "OK" ELSE "INSUFFICIENT_FUNDS",
                          !.amount = amount, !.type = type]
            /\ UNCHANGED <<tournament, transactions, now, reqs, budget, security>>

NextLedger == LedgerCredit \/ LedgerDebit

SpecLedger == InitLedger /\ [][NextLedger]_vars

----------------------------------------------------------------------------
(* The quiz security service on its own: the clock starts thirty-one       *)
(* seconds before a midnight, budget counts the recorded attempts          *)
AdvanceSteps == {1000, 29000}

HonestAttempt ==
    [score |-> 60, timeSpent |-> 43000,
     answers |-> <<Answer(TRUE, 8000), Answer(FALSE, 12000),
                   Answer(TRUE, 14000), Answer(TRUE, 9000)>>]

FastPerfectAttempt ==
    [score |-> 100, timeSpent |-> 2000,
     answers |-> <<Answer(TRUE, 1000), Answer(TRUE, 1000)>>]

AttemptInputs ==
    { HonestAttempt,
      FastPerfectAttempt,
      (* honest with a high score *)
      [score |-> 95, timeSpent |-> 43000,
       answers |-> <<Answer(TRUE, 8000), Answer(TRUE, 12000),
                     Answer(TRUE, 14000), Answer(FALSE, 9000)>>],
      (* fast *)
      [score |-> 50, timeSpent |-> 2000,
       answers |-> <<Answer(TRUE, 1000), Answer(FALSE, 1000)>>],
      (* even timing *)
      [score |-> 60, timeSpent |-> 28000,
       answers |-> <<Answer(TRUE, 7000), Answer(FALSE, 7000),
                     Answer(TRUE, 7000), Answer(TRUE, 7000)>>],
      (* slow *)
      [score |-> 40, timeSpent |-> 400000,
       answers |-> <<Answer(FALSE, 400000)>>],
      (* no answers *)
      [score |-> 0, timeSpent |-> 1000, answers |-> <<>>] }

(* the callers and the attempts of the rate limit runs *)
LimitUsers == {"u1"}
LimitAttempts == {HonestAttempt, FastPerfectAttempt}

InitSecurity ==
    /\ users = [u \in Users |-> Absent]
    /\ tournament = NoTournament
    /\ transactions = <<>>
    /\ now = Day - 31000
    /\ reqs = [s \in Slots |-> Idle]
    /\ pre = NoSnapshot
    /\ res = NoResult
    /\ budget = 0
    /\ security = NewSecurity

SecurityFrame == UNCHANGED <<users, tournament, transactions, reqs, pre, res>>

CanTakeQuiz(userId, difficulty) ==
    /\ security' = canTakeQuiz(security, userId, difficulty, now)
    /\ UNCHANGED <<now, budget>>
    /\ SecurityFrame

RecordQuizAttempt(userId, difficulty, attempt) ==
    /\ budget < MaxRecords
    /\ budget' = budget + 1
    /\ security' = recordQuizAttempt(security, userId, difficulty, attempt, now)
    /\ UNCHANGED now
    /\ SecurityFrame

ClearSuspiciousFlag(userId) ==
    /\ security' = clearSuspiciousFlag(security, userId)
    /\ UNCHANGED <<now, budget>>
    /\ SecurityFrame

ResetUserAttempts(userId, difficulty) ==
    /\ security' = resetUserAttempts(security, userId, difficulty)
    /\ UNCHANGED <<now, budget>>
    /\ SecurityFrame

Cleanup ==
    /\ security' = cleanup(security, now)
    /\ UNCHANGED <<now, budget>>
    /\ SecurityFrame

UpdateSecurityRules(newRules) ==
    /\ security' = updateSecurityRules(security, newRules)
    /\ UNCHANGED <<now, budget>>
    /\ SecurityFrame

Advance(step) ==
    /\ security.advances < MaxAdvances
    /\ step = Week => now < Week
    /\ now' = now + step
    /\ security' = [security EXCEPT !.advances = @ + 1]
    /\ UNCHANGED budget
    /\ SecurityFrame

NextSecurity ==
    \/ \E u \in LimitUsers, d \in Difficulties : CanTakeQuiz(u, d)
    \/ \E u \in LimitUsers, d \in Difficulties, a \in LimitAttempts :
          RecordQuizAttempt(u, d, a)
    \/ \E u \in LimitUsers : ClearSuspiciousFlag(u)
    \/ \E u \in LimitUsers, d \in Difficulties : ResetUserAttempts(u, d)
    \/ Cleanup
    \/ \E r \in RuleSets : UpdateSecurityRules(r)
    \/ \E step \in AdvanceSteps : Advance(step)

SpecSecurity == InitSecurity /\ [][NextSecurity]_vars

(* The fraud detection runs: two users, every kind of attempt, and a clock *)
(* that jumps by a week, past everything cleanup keeps                     *)
NextSuspicion ==
    \/ \E u \in SecurityUsers, d \in Difficulties : CanTakeQuiz(u, d)
    \/ \E u \in SecurityUsers, d \in Difficulties, a \in AttemptInputs :
          RecordQuizAttempt(u, d, a)
    \/ \E u \in SecurityUsers : ClearSuspiciousFlag(u)
    \/ \E u \in SecurityUsers, d \in Difficulties : ResetUserAttempts(u, d)
    \/ Cleanup
    \/ \E r \in {DefaultRules, StrictRules} : UpdateSecurityRules(r)
    \/ Advance(Week)

SpecSuspicion == InitSecurity /\ [][NextSuspicion]_vars

(* Gated submissions: a submission asks canTakeQuiz, the quiz is scored,   *)
(* and recordQuizAttempt is called if the gate allowed it.  Two            *)
(* submissions are in flight at a time; budget counts the submissions.     *)
InitGated ==
    \E rules \in RuleSets :
        /\ users = [u \in Users |-> Absent]
        /\ tournament = NoTournament
        /\ transactions = <<>>
        /\ now = Day - 31000
        /\ reqs = [s \in Slots |-> Idle]
        /\ pre = NoSnapshot
        /\ res = NoResult
        /\ budget = 0
        /\ security = [NewSecurity EXCEPT !.rules = rules]

GateAttempt(s, userId, difficulty) ==
    /\ Admit(s, FALSE)
    /\ security' = canTakeQuiz(security, userId, difficulty, now)
    /\ reqs' = IF security'.result.allowed
                  THEN [reqs EXCEPT ![s] =
                           [NewRequest("attempt", userId, FALSE) EXCEPT
                               !.body = [difficulty |-> difficulty],
                               !.pc = "attempt_record"]]
                  ELSE reqs
    /\ UNCHANGED <<users, tournament, transactions, now, pre, res>>

RecordGated(s, attempt) ==
    /\ reqs[s].pc = "attempt_record"
    /\ security' = recordQuizAttempt(security, reqs[s].user,
                                     reqs[s].body.difficulty, attempt, now)
    /\ reqs' = [reqs EXCEPT ![s] = Idle]
    /\ UNCHANGED <<users, tournament, transactions, now, pre, res, budget>>

NextGated ==
    \/ \E s \in Slots, u \in LimitUsers, d \in Difficulties : GateAttempt(s, u, d)
    \/ \E s \in Slots, a \in LimitAttempts : RecordGated(s, a)
    \/ \E step \in AdvanceSteps : Advance(step)

SpecGated == InitGated /\ [][NextGated]_vars

(* C1: after every credit and debit, on either bucket, balance equals      *)
(* playableBalance + bonusBalance and none of the three is negative.       *)
BalanceConservation ==
    \A u \in Users :
        /\ users[u].balance = users[u].playableBalance + users[u].bonusBalance
        /\ users[u].balance >= 0
        /\ users[u].playableBalance >= 0
        /\ users[u].bonusBalance >= 0

(* a debit of the bonus bucket succeeded after credits to both buckets *)
BalanceConservationWitness ==
    /\ res.op = "debit" /\ res.code = "OK" /\ res.type = "bonus" /\ res.amount > 0
    /\ users[LedgerUser].playableBalance > 0
    /\ users[LedgerUser].bonusBalance > 0

----------------------------------------------------------------------------
(* Claims about the sequential lifecycle.  res is the response of the last *)
(* finished request and pre the database it started from.                  *)

InWindow(t, at) == at >= t.registrationStart /\ at <= t.registrationEnd

DatabaseUnchanged ==
    /\ users = pre.users
    /\ tournament = pre.tournament
    /\ transactions = pre.transactions

JoinRejections == {"Already a participant", "Tournament is full",
                   "Registration is closed"}

JoinConditions(t, userId, at, bal) ==
    /\ ~HasParticipant(t, userId)
    /\ t.status = "upcoming"
    /\ InWindow(t, at)
    /\ Len(t.participants) < t.maxParticipants
    /\ bal >= t.entryFee

(* the rejection names a condition that does not hold *)
JoinRejectionMatches ==
    LET t == pre.tournament
        bal == pre.users[res.user].playableBalance
    IN  /\ res.reason = "Already a participant" => HasParticipant(t, res.user)
        /\ res.reason = "Tournament is full"
              => Len(t.participants) >= t.maxParticipants
        /\ res.reason = "Registration is closed"
              => \/ t.status # "upcoming"
                 \/ ~InWindow(t, pre.now)
                 \/ ~InWindow(t, now)
        /\ res.reason = "Private tournament" => t.isPrivate
        /\ res.code = "INSUFFICIENT_BALANCE" => bal < t.entryFee

LastTransaction(txns, userId, type, category) ==
    IF \E k \in 1..Len(txns) : /\ txns[k].userId = userId
                               /\ txns[k].type = type
                               /\ txns[k].category = category
       THEN CHOOSE k \in 1..Len(txns) :
                /\ txns[k].userId = userId /\ txns[k].type = type
                /\ txns[k].category = category
                /\ \A j \in (k + 1)..Len(txns) :
                       ~(/\ txns[j].userId = userId /\ txns[j].type = type
                         /\ txns[j].category = category)
       ELSE 0

RosterUsers(t) == {t.participants[i].user : i \in 1..Len(t.participants)}

OneTransactionAdded(userId, type, category, amount, before, after) ==
    /\ Len(transactions) = Len(pre.transactions) + 1
    /\ SubSeq(transactions, 1, Len(pre.transactions)) = pre.transactions
    /\ LET x == transactions[Len(transactions)]
       IN  /\ x.userId = userId /\ x.type = type /\ x.category = category
           /\ x.status = "completed" /\ x.amount = amount
           /\ x.balanceBefore = before /\ x.balanceAfter = after

JoinEffect ==
    LET u == res.user
        t == pre.tournament
        old == pre.users[u].playableBalance
    IN  /\ users[u].playableBalance = old - t.entryFee
        /\ users[u].bonusBalance = pre.users[u].bonusBalance
        /\ users[u].balance = pre.users[u].balance - t.entryFee
        /\ \A o \in Users \ {u} : users[o] = pre.users[o]
        /\ Len(tournament.participants) = Len(t.participants) + 1
        /\ SubSeq(tournament.participants, 1, Len(t.participants)) = t.participants
        /\ tournament.participants[Len(tournament.participants)].user = u
        /\ tournament.participants[Len(tournament.participants)].score = 0
        /\ OneTransactionAdded(u, "tournament", "expense", t.entryFee,
                               old, old - t.entryFee)

LeaveEffect ==
    LET u == res.user
        t == pre.tournament
        old == pre.users[u].playableBalance
    IN  /\ users[u].playableBalance = old + t.entryFee
        /\ users[u].bonusBalance = pre.users[u].bonusBalance
        /\ users[u].balance = pre.users[u].balance + t.entryFee
        /\ \A o \in Users \ {u} : users[o] = pre.users[o]
        /\ Len(tournament.participants) = Len(t.participants) - 1
        /\ RosterUsers(tournament) = RosterUsers(t) \ {u}
        /\ OneTransactionAdded(u, "refund", "income", t.entryFee,
                               old, old + t.entryFee)

(* the leave follows the user's join with the fee and the balance the join *)
(* left                                                                    *)
LeaveFollowsJoin ==
    LET u == res.user
        k == LastTransaction(pre.transactions, u, "tournament", "expense")
    IN  /\ res.op = "leave" /\ res.code = "OK"
        /\ k > 0
        /\ pre.transactions[k].amount = pre.tournament.entryFee
        /\ pre.transactions[k].balanceAfter = pre.users[u].playableBalance

RoundTrip ==
    LET u == res.user
        j == pre.transactions[LastTransaction(pre.transactions, u,
                                              "tournament", "expense")]
        x == transactions[Len(transactions)]
    IN  /\ users[u].playableBalance = j.balanceBefore
        /\ x.balanceBefore = j.balanceAfter
        /\ x.balanceAfter = j.balanceBefore
        /\ x.amount = j.amount

StartContract ==
    res.op = "start" =>
        LET t == pre.tournament
        IN  /\ res.code = "OK" =>
                  /\ t.status = "upcoming"
                  /\ Len(t.participants) >= t.minParticipants
                  /\ tournament = [t EXCEPT !.status = "active",
                                            !.phase = "quiz",
                                            !.actualStartTime = pre.now]
            /\ res.code # "OK" => tournament = t
            /\ (t.status = "upcoming" /\ Len(t.participants) < t.minParticipants)
                  => /\ res.code # "OK"
                     /\ res.reason = "Not enough participants to start tournament"
            /\ t.status # "upcoming" => res.code # "OK"
            /\ users = pre.users
            /\ transactions = pre.transactions

(* a tournament with a full roster was started some time after its         *)
(* creation                                                                *)
StartContractWitness ==
    /\ res.op = "start" /\ res.code = "OK"
    /\ tournament.status = "active"
    /\ tournament.actualStartTime > 0
    /\ Len(tournament.participants) >= tournament.minParticipants

StatusEdges == {<<"upcoming", "active">>, <<"active", "completed">>,
                <<"upcoming", "cancelled">>}

PhaseMatches(t) ==
    /\ t.status = "upcoming" => t.phase = "registration"
    /\ t.status = "active" => t.phase = "quiz"
    /\ t.status = "completed" => t.phase = "results"

(* C10: the status of a tournament only moves along upcoming -> active,    *)
(* active -> completed and upcoming -> cancelled, and phase is             *)
(* registration while upcoming, quiz while active and results while        *)
(* completed.                                                              *)
StatusForwardOnly ==
    [][/\ tournament'.status # tournament.status
            => <<tournament.status, tournament'.status>> \in StatusEdges
       /\ PhaseMatches(tournament')]_vars

----------------------------------------------------------------------------
(* Claims about the wallet *)

(* C2: a debit is all or nothing on every debit path: when the amount      *)
(* exceeds the bucket the debit fails and the balances are unchanged,      *)
(* otherwise the bucket and the aggregate balance decrease by exactly the  *)
(* amount.                                                                 *)
DebitAllOrNothing ==
    res.op \in {"debit", "subtract"} =>
        LET old == pre.users[res.user]
            new == users[res.user]
        IN  IF res.amount > Bucket(old, res.type)
               THEN res.code # "OK" /\ new = old
               ELSE /\ Bucket(new, res.type) = Bucket(old, res.type) - res.amount
                    /\ new.balance = old.balance - res.amount

RECURSIVE Replay(_, _)
Replay(txns, userId) ==
    IF txns = <<>> THEN 0
    ELSE LET x == txns[Len(txns)]
             rest == Replay(SubSeq(txns, 1, Len(txns) - 1), userId)
         IN  IF x.userId = userId /\ x.status = "completed"
                THEN IF x.category = "income" THEN rest + x.amount
                     ELSE IF x.category = "expense" THEN rest - x.amount
                     ELSE rest
                ELSE rest

(* C3: when no request is in flight, every completed transaction holds in  *)
(* balanceBefore and balanceAfter the playable balance its user had just   *)
(* before and just after it was applied, and replaying a user's completed  *)
(* transactions from zero gives the user's playable balance.               *)
TransactionsAgree ==
    AllIdle =>
        /\ \A k \in 1..Len(transactions) :
              transactions[k].status = "completed" =>
                  /\ transactions[k].balanceBefore = transactions[k].actualBefore
                  /\ transactions[k].balanceAfter = transactions[k].actualAfter
        /\ \A u \in Users : Replay(transactions, u) = users[u].playableBalance

----------------------------------------------------------------------------
(* Claims about overlapping requests and failing writes *)

(* C4: the writes of a join or a leave are one unit: a join that answers   *)
(* has committed the roster entry, the fee debit and the transaction       *)
(* record, or none of them; a leave has committed the refund and its       *)
(* transaction record, or neither.                                         *)
WritesAreOneUnit ==
    /\ res.op = "join" => res.wT = res.wU /\ res.wU = res.wX
    /\ res.op = "leave" => res.wU = res.wX

(* C5: the roster never holds more than maxParticipants entries and never  *)
(* holds a user twice, whatever the interleaving of the requests.          *)
RosterBounded ==
    tournament # NoTournament =>
        /\ Len(tournament.participants) <= tournament.maxParticipants
        /\ \A i, j \in 1..Len(tournament.participants) :
              tournament.participants[i].user =
                  tournament.participants[j].user => i = j

(* C8: once the status has left upcoming, no step changes the set of       *)
(* participants, their number or the entry fee.                            *)
RosterFrozen ==
    [][tournament.status \notin {"none", "upcoming"} =>
          /\ tournament'.status # "none"
          /\ RosterUsers(tournament') = RosterUsers(tournament)
          /\ Len(tournament'.participants) = Len(tournament.participants)
          /\ tournament'.entryFee = tournament.entryFee]_vars

----------------------------------------------------------------------------
(* Claims about completion *)

Completed == res.op = "complete" /\ res.code = "OK"

PositionOf(seq, userId) == CHOOSE i \in 1..Len(seq) : seq[i].user = userId

(* C11: after a completion the ranks of the N participants are 1..N, each  *)
(* once; a higher score has the better rank, and among equal scores the    *)
(* lower timeSpent; the winner is the participant of rank 1; participants  *)
(* equal in score and timeSpent keep the order of the roster.              *)
RankingCorrect ==
    Completed =>
        LET ps == tournament.participants
            old == pre.tournament.participants
            N == Len(ps)
        IN  /\ N = Len(old)
            /\ RosterUsers(tournament) = RosterUsers(pre.tournament)
            /\ {ps[i].rank : i \in 1..N} = 1..N
            /\ \A i, j \in 1..N :
                  /\ ps[i].score > ps[j].score => ps[i].rank < ps[j].rank
                  /\ (ps[i].score = ps[j].score /\ ps[i].timeSpent < ps[j].timeSpent)
                        => ps[i].rank < ps[j].rank
                  /\ (/\ ps[i].score = ps[j].score
                      /\ ps[i].timeSpent = ps[j].timeSpent
                      /\ PositionOf(old, ps[i].user) < PositionOf(old, ps[j].user))
                        => ps[i].rank < ps[j].rank
            /\ \A i \in 1..N :
                  /\ ps[i].score = old[PositionOf(old, ps[i].user)].score
                  /\ ps[i].timeSpent = old[PositionOf(old, ps[i].user)].timeSpent
                  /\ ps[i].rank = 1 => tournament.winner = ps[i].user

(* three participants were ranked: the best score is second on the roster  *)
(* and the other two, equal in score, are told apart by timeSpent          *)
RankingCorrectWitness ==
    /\ Completed
    /\ Len(pre.tournament.participants) = 3
    /\ \E i, j, k \in 1..3 :
          LET old == pre.tournament.participants
          IN  /\ i < j /\ k # i /\ k # j
              /\ old[i].score = old[j].score
              /\ old[i].timeSpent > old[j].timeSpent
              /\ old[k].score > old[i].score
              /\ k > 1

(* the prize the distribution of t gives to a rank *)
PrizeOfRank(t, rank) ==
    IF \E k \in 1..Len(t.prizeDistribution) : t.prizeDistribution[k].rank = rank
       THEN t.prizeDistribution[
                CHOOSE k \in 1..Len(t.prizeDistribution) :
                    /\ t.prizeDistribution[k].rank = rank
                    /\ \A j \in 1..(k - 1) : t.prizeDistribution[j].rank # rank].prize
       ELSE 0

(* the prize of a user on the roster of t, 0 for a user who is not on it *)
PrizeOfUser(t, userId) ==
    IF HasParticipant(t, userId)
       THEN t.participants[PositionOf(t.participants, userId)].prize
       ELSE 0

RECURSIVE SumOver(_, _)
SumOver(f, S) ==
    IF S = {} THEN 0
    ELSE LET e == CHOOSE e \in S : TRUE IN f[e] + SumOver(f, S \ {e})

PrizeTransactions(userId) ==
    {k \in (Len(pre.transactions) + 1)..Len(transactions) :
        /\ transactions[k].userId = userId
        /\ transactions[k].type = "tournament"
        /\ transactions[k].category = "income"
        /\ transactions[k].status = "completed"
        /\ transactions[k].tournamentId = TournamentId}

PaidAtMostOnce ==
    \A u \in Users :
        /\ users[u].playableBalance - InitialPlayable[u]
              \in {0, PrizeOfUser(tournament, u)}
        /\ Cardinality({k \in 1..Len(transactions) :
                           /\ transactions[k].userId = u
                           /\ transactions[k].type = "tournament"
                           /\ transactions[k].category = "income"}) <= 1

(* C13: completion never pays twice: whatever the order and overlap of the *)
(* complete requests, every participant is credited the prize at most once *)
(* and has at most one prize transaction; a complete request that finds    *)
(* the tournament not active is rejected and changes nothing.              *)
NoDoublePay ==
    [][/\ PaidAtMostOnce'
       /\ (/\ budget' # budget
           /\ tournament.status # "active")
             => /\ res'.op = "complete" /\ res'.code # "OK"
                /\ UNCHANGED <<users, tournament, transactions>>]_vars

(* two complete requests overlapped: one paid the three participants, the  *)
(* other lost the race for the save                                        *)
NoDoublePayWitness ==
    /\ res.op = "complete" /\ res.reason = "VersionError"
    /\ Len(transactions) = 3
    /\ \A u \in Users : users[u].playableBalance > InitialPlayable[u]

----------------------------------------------------------------------------
(* Claims about create *)

DatesOrdered(body) ==
    /\ body.registrationStart < body.registrationEnd
    /\ body.registrationEnd < body.startTime
    /\ body.startTime < body.endTime

CreateDefaults ==
    (res.op = "create" /\ res.code = "OK") =>
        LET body == res.body
            pd == tournament.prizeDistribution
        IN  /\ tournament.appFee * 10 = body.entryFee * 2
            /\ IF body.prizeDistribution = <<>>
                  THEN /\ Len(pd) = 3
                       /\ \A k \in 1..3 : pd[k].rank = k
                       /\ pd[1].prize * 10 = body.prizePool * 5
                       /\ pd[2].prize * 10 = body.prizePool * 3
                       /\ pd[3].prize * 10 = body.prizePool * 2
                       /\ pd[1].prize + pd[2].prize + pd[3].prize = body.prizePool
                  ELSE pd = body.prizeDistribution

----------------------------------------------------------------------------
(* what the history of the key said when the last call was made *)
DailyCapReached == security.result.today >= security.rules.maxDailyQuizzes

HourlyCapReached == security.result.hour >= security.rules.maxHourlyQuizzes

CooldownRunning ==
    /\ security.result.recorded > 0
    /\ security.result.at - security.result.last
          < security.rules.minTimeBetweenQuizzes

FirstFailingCheck ==
    IF DailyCapReached THEN "DAILY_LIMIT_EXCEEDED"
    ELSE IF HourlyCapReached THEN "HOURLY_LIMIT_EXCEEDED"
    ELSE IF CooldownRunning THEN "COOLDOWN_ACTIVE"
    ELSE IF security.result.flagged THEN "SUSPICIOUS_ACTIVITY"
    ELSE "none"

(* C16: canTakeQuiz answers with the first failing check in the order      *)
(* daily cap, hourly cap, cooldown, suspicious set, whatever the later     *)
(* checks would say, and allows exactly when none of the four fails.       *)
CheckOrder ==
    security.result.op = "canTakeQuiz" =>
        /\ security.result.reason = FirstFailingCheck
        /\ security.result.allowed = (FirstFailingCheck = "none")

CheckOrderWitness ==
    /\ security.result.op = "canTakeQuiz"
    /\ DailyCapReached
    /\ HourlyCapReached
    /\ CooldownRunning
    /\ security.result.flagged
    /\ security.result.reason = "DAILY_LIMIT_EXCEEDED"
    /\ ~security.result.allowed

(* C17: with exactly maxDailyQuizzes attempts recorded since midnight the  *)
(* answer is DAILY_LIMIT_EXCEEDED; with one fewer the daily check does not *)
(* deny and, no later check failing, the quiz is allowed; the daily check  *)
(* denies only on the attempts since midnight, however many came before.   *)
DailyBoundary ==
    security.result.op = "canTakeQuiz" =>
        /\ security.result.today = security.rules.maxDailyQuizzes =>
              /\ ~security.result.allowed
              /\ security.result.reason = "DAILY_LIMIT_EXCEEDED"
        /\ security.result.today = security.rules.maxDailyQuizzes - 1 =>
              /\ security.result.reason # "DAILY_LIMIT_EXCEEDED"
              /\ (~HourlyCapReached /\ ~CooldownRunning
                     /\ ~security.result.flagged) => security.result.allowed
        /\ security.result.reason = "DAILY_LIMIT_EXCEEDED" => DailyCapReached

DailyBoundaryWitness ==
    /\ security.result.op = "canTakeQuiz"
    /\ security.result.recorded >= security.rules.maxDailyQuizzes
    /\ security.result.today = security.rules.maxDailyQuizzes - 1
    /\ security.result.reason # "DAILY_LIMIT_EXCEEDED"

(* C18 as stated: with neither cap reached, canTakeQuiz is denied exactly  *)
(* when now - lastAttempt < minTimeBetweenQuizzes, with COOLDOWN_ACTIVE;   *)
(* 29 seconds after the last attempt it is denied, 31 seconds after it is  *)
(* allowed.                                                                *)
CooldownBoundaryAsStated ==
    (/\ security.result.op = "canTakeQuiz"
     /\ ~DailyCapReached
     /\ ~HourlyCapReached) =>
        /\ ~security.result.allowed <=> CooldownRunning
        /\ ~security.result.allowed => security.result.reason = "COOLDOWN_ACTIVE"

(* C18: with neither cap reached, canTakeQuiz answers COOLDOWN_ACTIVE      *)
(* exactly when now - lastAttempt < minTimeBetweenQuizzes: with the        *)
(* default 30 seconds, 29 seconds after the last attempt it is denied, and *)
(* 31 seconds after it is allowed unless the user is flagged suspicious.   *)
CooldownBoundary ==
    (/\ security.result.op = "canTakeQuiz"
     /\ ~DailyCapReached
     /\ ~HourlyCapReached) =>
        /\ security.result.reason = "COOLDOWN_ACTIVE" <=> CooldownRunning
        /\ (/\ security.rules.minTimeBetweenQuizzes = 30000
            /\ security.result.recorded > 0
            /\ security.result.at - security.result.last = 29000) =>
               /\ ~security.result.allowed
               /\ security.result.reason = "COOLDOWN_ACTIVE"
        /\ (/\ security.rules.minTimeBetweenQuizzes = 30000
            /\ security.result.at - security.result.last = 31000
            /\ ~security.result.flagged) => security.result.allowed
        /\ (~CooldownRunning /\ ~security.result.flagged) =>
               security.result.allowed

CooldownBoundaryWitness ==
    /\ security.result.op = "canTakeQuiz"
    /\ security.rules = DefaultRules
    /\ security.result.recorded > 0
    /\ security.result.at - security.result.last = 31000
    /\ security.result.allowed

(* C19: a canTakeQuiz call for a user of the suspicious set is denied,     *)
(* whatever the difficulty, the time elapsed, the cleanups and the resets  *)
(* in between, and a user leaves the set only by a clearSuspiciousFlag     *)
(* call for that user.                                                     *)
FlagSticky ==
    [][/\ \A u \in SecurityUsers :
             (u \in security.suspicious /\ u \notin security'.suspicious)
                 => ClearSuspiciousFlag(u)
       /\ (/\ security'.result.op = "canTakeQuiz"
           /\ security'.result.user \in security.suspicious)
             => ~security'.result.allowed]_vars

FlagStickyWitness ==
    /\ security.result.op = "canTakeQuiz"
    /\ security.result.user \in security.suspicious
    /\ security.result.reason = "SUSPICIOUS_ACTIVITY"
    /\ security.result.recorded = 0
    /\ security.result.at > Week
    /\ \A k \in UserKeys : security.attempts[k].daily = <<>>

(* C20: an attempt is marked suspicious exactly when two or more of the    *)
(* flags fire; a marked attempt puts the user in the suspicious set, an    *)
(* attempt firing no flag or one leaves the set as it was.                 *)
TwoFlagsMark ==
    security.result.op = "recordQuizAttempt" =>
        /\ security.result.suspicious <=> security.result.flags >= 2
        /\ security.result.suspicious =>
              security.result.user \in security.suspicious
        /\ ~security.result.suspicious =>
              (security.result.user \in security.suspicious
                  <=> security.result.flagged)

TwoFlagsMarkWitness ==
    /\ security.result.op = "recordQuizAttempt"
    /\ security.result.flags = 1
    /\ ~security.result.suspicious
    /\ security.result.user \notin security.suspicious

----------------------------------------------------------------------------
ScoreOf(t, userId) == t.participants[ParticipantIndex(t, userId)].score

(* C21: no step lowers the score of a participant, and no step changes a   *)
(* score while the tournament is upcoming or completed.                    *)
ScoresMonotone ==
    [][\A u \in Users :
          (HasParticipant(tournament, u) /\ HasParticipant(tournament', u)) =>
              /\ ScoreOf(tournament', u) >= ScoreOf(tournament, u)
              /\ tournament.status # "active" =>
                    ScoreOf(tournament', u) = ScoreOf(tournament, u)]_vars

----------------------------------------------------------------------------
(* would a call at the instant, with the attempts recorded so far, be      *)
(* denied by the check of the reason                                       *)
BlockedAt(reason, instant) ==
    LET times == security.log[<<security.result.user, security.result.difficulty>>]
    IN  IF reason = "DAILY_LIMIT_EXCEEDED"
           THEN Len(Since(times, TodayStart(instant)))
                   >= security.rules.maxDailyQuizzes
        ELSE IF reason = "HOURLY_LIMIT_EXCEEDED"
           THEN Len(Since(times, instant - Hour))
                   >= security.rules.maxHourlyQuizzes
        ELSE /\ times # <<>>
             /\ instant - times[Len(times)]
                   < security.rules.minTimeBetweenQuizzes

RateReasons ==
    {"DAILY_LIMIT_EXCEEDED", "HOURLY_LIMIT_EXCEEDED", "COOLDOWN_ACTIVE"}

(* C22: the resetTime of a daily, hourly or cooldown denial is the instant *)
(* the check stops denying: with the same attempts a call at resetTime     *)
(* passes that check and a call one millisecond earlier does not; a        *)
(* suspicious denial carries no resetTime.                                 *)
ResetTimeClears ==
    security.result.op = "canTakeQuiz" =>
        /\ security.result.reason = "SUSPICIOUS_ACTIVITY" =>
              security.result.resetTime = NoDate
        /\ security.result.reason \in RateReasons =>
              /\ ~BlockedAt(security.result.reason, security.result.resetTime)
              /\ BlockedAt(security.result.reason, security.result.resetTime - 1)

----------------------------------------------------------------------------
(* C23: when every recorded attempt passed the gate first, the attempts    *)
(* recorded for a key are never closer than the cooldown, never more than  *)
(* maxDailyQuizzes since the midnight before one of them, and never more   *)
(* than maxHourlyQuizzes in the hour up to one of them.                    *)
GatedCapsHold ==
    \A k \in UserKeys :
        LET times == security.log[k]
        IN  \A j \in 1..Len(times) :
               /\ \A i \in 1..(j - 1) :
                     times[j] - times[i] >= security.rules.minTimeBetweenQuizzes
               /\ Len(Since(SubSeq(times, 1, j), TodayStart(times[j])))
                     <= security.rules.maxDailyQuizzes
               /\ Len(Since(SubSeq(times, 1, j), times[j] - Hour))
                     <= security.rules.maxHourlyQuizzes

----------------------------------------------------------------------------
(* C24: when no request is in flight, every completed withdrawal has been  *)
(* debited: the user write of its approval took exactly its amount from    *)
(* the playable balance.                                                   *)
WithdrawalsDebited ==
    AllIdle =>
        \A k \in 1..Len(transactions) :
            (transactions[k].type = "withdrawal"
                /\ transactions[k].status = "completed") =>
               /\ transactions[k].actualBefore # NoDate
               /\ transactions[k].actualBefore - transactions[k].actualAfter
                     = transactions[k].amount

(* C29: the balance write of a request moves the stored playable balance   *)
(* by the amount the request computed, whatever other request wrote the    *)
(* user in between, so that the final balance is the initial balance plus  *)
(* the deltas of the operations that succeeded; the balance is never       *)
(* negative.                                                               *)
NoLostUpdate ==
    [][/\ \A s \in Slots :
             (~reqs[s].wU /\ reqs'[s].wU) =>
                 users'[reqs[s].user].playableBalance
                    - users[reqs[s].user].playableBalance
                 = reqs[s].u.playableBalance - reqs[s].u0.playableBalance
       /\ \A u \in Users : users'[u].playableBalance >= 0]_vars

----------------------------------------------------------------------------
(* C25: when an admin adjustment has answered, either the user is as       *)
(* before the request, or one completed admin_adjustment transaction was   *)
(* added whose balanceBefore and balanceAfter are the value of the bucket  *)
(* before and after.                                                       *)
AdjustmentsRecorded ==
    res.op \in AdjustOperations =>
        \/ users[res.user] = pre.users[res.user]
        \/ /\ Len(transactions) = Len(pre.transactions) + 1
           /\ transactions[Len(transactions)].userId = res.user
           /\ transactions[Len(transactions)].type = "admin_adjustment"
           /\ transactions[Len(transactions)].status = "completed"
           /\ transactions[Len(transactions)].balanceBefore
                 = Bucket(pre.users[res.user], res.type)
           /\ transactions[Len(transactions)].balanceAfter
                 = Bucket(users[res.user], res.type)

(* C26: no step deletes a transaction, changes the status of a transaction *)
(* other than from pending to completed or failed, or changes the amount,  *)
(* balanceBefore or balanceAfter of a completed transaction.               *)
TransactionsImmutable ==
    [][/\ Len(transactions') >= Len(transactions)
       /\ \A k \in 1..Len(transactions) :
             /\ transactions'[k].status # transactions[k].status =>
                   /\ transactions[k].status = "pending"
                   /\ transactions'[k].status \in {"completed", "failed"}
             /\ transactions[k].status = "completed" =>
                   /\ transactions'[k].amount = transactions[k].amount
                   /\ transactions'[k].balanceBefore = transactions[k].balanceBefore
                   /\ transactions'[k].balanceAfter = transactions[k].balanceAfter]_vars

----------------------------------------------------------------------------
(* C27: when the tournament is completed and no request is in flight,      *)
(* every participant with a prize has been credited the prize.             *)
AllPrizesPaid ==
    (tournament.status = "completed" /\ AllIdle) =>
        \A u \in Users :
            PrizeOfUser(tournament, u) > 0 =>
                users[u].playableBalance
                   = InitialPlayable[u] + PrizeOfUser(tournament, u)

(* C30: after a completion topParticipants holds the ten best-ranked       *)
(* participants in rank order, each entry with the user, rank, score and   *)
(* prize of the participant of that rank.                                  *)
TopParticipantsAgree ==
    Completed =>
        LET ps == tournament.participants
            top == tournament.topParticipants
        IN  /\ Len(top) = IF Len(ps) < 10 THEN Len(ps) ELSE 10
            /\ \A i \in 1..Len(top) :
                  /\ top[i].rank = i
                  /\ ps[i].rank = i
                  /\ top[i].user = ps[i].user
                  /\ top[i].score = ps[i].score
                  /\ top[i].prize = ps[i].prize

----------------------------------------------------------------------------
(* C28: after a successful create the creator has been debited one         *)
(* entryFee and is a participant of the new tournament, and the roster     *)
(* holds one entry for each entry fee debited.                             *)
CreatorJoins ==
    (res.op = "create" /\ res.code = "OK") =>
        /\ users[res.user].playableBalance
              = pre.users[res.user].playableBalance - tournament.entryFee
        /\ HasParticipant(tournament, res.user)
        /\ Len(tournament.participants)
              = Len(transactions) - Len(pre.transactions)

====
